---- MODULE Spec2Model ----
(***************************************************************************)
(* A model of the PPO+RND and PPO+RLE training scripts                     *)
(* (four_room_grid_world/algorithms/ppo_rnd.py, old/jonatan_stuff/         *)
(* ppo_rle.py).  Each component is a group of variables with its own       *)
(* specification; the groups a specification does not use stay idle.       *)
(*                                                                         *)
(* Real numbers are modelled exactly: as integers where the inputs are     *)
(* integers, and as fixed-point integers in units of 1/FScale where a      *)
(* fraction (gamma = 1/2) is needed.                                       *)
(***************************************************************************)
EXTENDS Integers, Naturals, Sequences, FiniteSets, TLC

VARIABLES
    \* ---- RewardForwardFilter (ppo_rnd.py 270-288)
    rewems,      \* self.rewems: None, or the accumulator vector
    fshare,      \* which caller-visible vectors share storage with self.rewems
    fcalls,      \* number of update calls made
    frews,       \* the rews argument of the last call
    fnotdone,    \* the not_done argument of the last call (None when omitted)
    fprev,       \* self.rewems as it was when the last call started
    fret,        \* the vector the last call returned
    fheld,       \* the returned vector the caller holds on to (at most one)
    fwrite       \* the last write of the caller into a returned vector

filterVars == <<rewems, fshare, fcalls, frews, fnotdone, fprev, fret, fheld, fwrite>>

VARIABLES
    \* ---- flattening the rollout batch (ppo_rnd.py 542-551, ppo_rle.py 534-541)
    flscript,        \* which script runs: "rnd" or "rle"
    rollout,         \* field name -> the (num_steps, num_envs) rollout buffer
    latent_vectors,  \* RLE: one latent per environment
    batch            \* field name -> the flattened buffer (None before flattening)

flatVars == <<flscript, rollout, latent_vectors, batch>>

VARIABLES
    \* ---- advantage estimation (ppo_rnd.py 511-540, ppo_rle.py 518-530).
    \* The RLE script has one stream: its values, next_value, advantages,
    \* lastgaelam and returns are held in the ext_ variables.
    gscript,            \* which script runs: "rnd" or "rle"
    gparams,            \* <<args.gamma, args.int_gamma, args.gae_lambda>>
    rewards,            \* (T, N) rewards
    curiosity_rewards,  \* (T, N) intrinsic rewards (RND)
    dones,              \* (T, N) done flags
    ext_values,         \* (T, N) value estimates
    int_values,         \* (T, N) intrinsic value estimates (RND)
    next_done,          \* (N) done flags after the last step
    next_value_ext,     \* (N) bootstrap values
    next_value_int,     \* (N) intrinsic bootstrap values (RND)
    gt,                 \* the loop variable t of reversed(range(num_steps))
    ext_lastgaelam,
    int_lastgaelam,
    ext_advantages,
    int_advantages,
    ext_returns,        \* None until the loop has ended
    int_returns

gaeInputs == <<gscript, gparams, rewards, curiosity_rewards, dones, ext_values,
               int_values, next_done, next_value_ext, next_value_int>>
gaeVars == <<gaeInputs, gt, ext_lastgaelam, int_lastgaelam, ext_advantages,
             int_advantages, ext_returns, int_returns>>

VARIABLES
    \* ---- the training scripts' control flow (ppo_rnd.py 300-699, ppo_rle.py 363-618)
    tscript,         \* which script runs: "rnd" or "rle"
    args,            \* the parsed configuration, with the derived sizes
    pc,              \* where the script is
    iteration,       \* update (RND) / iteration (RLE): 1-based
    step,            \* the step of the warm-up or rollout loop
    epoch,           \* the epoch of the optimization loop
    start,           \* start of the current minibatch
    global_step,
    env_steps,       \* envs.step calls made
    opt_steps,       \* optimizer.step calls made
    next_ob,         \* RND warm-up: length of the list next_ob
    rms_count,       \* samples folded into each RunningMeanStd (count - epsilon)
    stats_updates,   \* update_stats calls of this iteration (RLE)
    policy_version,  \* optimizer steps the agent's parameters have taken
    blends,          \* update_from_policy_net calls of this iteration (RLE)
    blend_version,   \* policy_version the last blend read
    divisions,       \* the normalizations performed: site and epsilon term
    epoch_inds,      \* b_inds of the current epoch (<<>> before the shuffle)
    minibatches,     \* the mb_inds of the current epoch, in order
    kl,              \* do approx_kl / old_approx_kl of the last minibatch exceed target_kl
    epochs_run,      \* epochs of this iteration whose minibatch loop has ended
    kl_seen,         \* approx_kl of some minibatch of this iteration exceeded target_kl
    late_steps,      \* optimizer steps of this iteration taken after that
    epoch_end_high,  \* an epoch of this iteration ended with approx_kl > target_kl
    steps_after_high \* optimizer steps of this iteration taken after that

optVars == <<epoch_inds, minibatches, kl, epochs_run, kl_seen, late_steps,
             epoch_end_high, steps_after_high>>

trainVars == <<tscript, args, pc, iteration, step, epoch, start, global_step,
               env_steps, opt_steps, next_ob, rms_count, stats_updates,
               policy_version, blends, blend_version, divisions, optVars>>

VARIABLES
    \* ---- two runs of one script under one seed (the random generators)
    rscript,         \* which script both runs execute: "rnd" or "rle"
    seed,            \* args.seed, the same in both runs
    rpc,             \* where both runs are
    rstep,           \* steps of the current loop taken
    riter,           \* iterations completed
    torch_rng,       \* per run: state of torch's global generator
    numpy_rng,       \* per run: state of numpy's global generator
    env_rng,         \* per run: state of the environment's np_random
    space_rng,       \* per run: state of the action space's generator
    z,               \* per run: the latent vector sampled (RLE)
    agent_location,  \* per run: the environment's _agent_location
    action,          \* per run: the last action taken
    b_inds           \* per run: the last minibatch permutation

seedVars == <<rscript, seed, rpc, rstep, riter, torch_rng, numpy_rng, env_rng,
              space_rng, z, agent_location, action, b_inds>>

VARIABLES
    \* ---- RunningMeanStd (ppo_rnd.py 146-184): one statistic per grouping of
    \* the same three batches
    batches,         \* the three batches <<A, B, C>>
    rms,             \* per grouping: [mean, var, count] of its statistic
    rms_done,        \* per grouping: updates made
    rms_before       \* per grouping: the statistic before its last update

rmsVars == <<batches, rms, rms_done, rms_before>>

VARIABLES
    \* ---- the latent vectors of the RLE rollout (ppo_rle.py 423-427, 480-487)
    z_latent,            \* per environment: which sample its latent vector is
    steps_since_z_reset, \* per environment
    z_samples,           \* samples drawn by sample_z so far
    z_steps,             \* rollout steps taken
    z_done,              \* next_done of the last step
    z_before,            \* z_latent and steps_since_z_reset before the last step
    z_assigned,          \* per environment: assignments to its latent in the last step
    z_used,              \* per environment: steps its latent of the last step had served
    z_at,                \* history: per step, the latents its actions were sampled with
    b_latents            \* None, or the latents of the flattened batch

latentVars == <<z_latent, steps_since_z_reset, z_samples, z_steps, z_done, z_before,
                z_assigned, z_used, z_at, b_latents>>

VARIABLES
    \* ---- the policy loss of a minibatch (ppo_rnd.py 586-602, ppo_rle.py 557-567)
    ratio,           \* per sample: exp(newlogprob - b_logprobs[mb_inds])
    mb_advantages,   \* per sample
    pg_loss          \* None until it is computed

lossVars == <<ratio, mb_advantages, pg_loss>>

VARIABLES
    \* ---- reward normalization of one stream in the RND loop (ppo_rnd.py 420-509)
    nstream,         \* "ext": rewards, ext_discounted_reward, ext_reward_rms
                     \* "int": curiosity_rewards, int_discounted_reward, int_reward_rms
    npc,             \* where the loop stands
    nupdate,         \* update, the iteration number
    nstep,           \* step of the rollout, then i of the filter comprehension
    norm_rewards,    \* the stream's buffer, num_steps rows
    norm_dones,      \* dones
    norm_next_done,  \* next_done
    norm_rewems,     \* the filter's self.rewems: None, or <<k>> for a view of row k
                     \* of the stream's buffer
    reward_per_env,  \* the rows the filter returned in this iteration
    stat_updates,    \* how many times the stream's statistic was updated
    stat_batch,      \* what the statistic was last updated with
    divisor,         \* <<k>> once the buffer was divided by sqrt(var) of the
                     \* statistic after its k-th update
    norm_raw,        \* history: the rewards the rollout of this iteration stored
    norm_log         \* history: the normalization statements of this iteration

normVars == <<nstream, npc, nupdate, nstep, norm_rewards, norm_dones, norm_next_done,
              norm_rewems, reward_per_env, stat_updates, stat_batch, divisor,
              norm_raw, norm_log>>

VARIABLES
    \* ---- the networks' parameters and the optimizer (ppo_rnd.py 252-261, 356-363, 566-629)
    params,          \* per network: the value of its parameters
    params0,         \* history: the values at construction
    grad,            \* per network: None, or <<g>> once backward() has set .grad
    parpc,           \* "rollout" or "optimize"
    optimizer_steps  \* how many times optimizer.step() ran

paramVars == <<params, params0, grad, parpc, optimizer_steps>>

VARIABLES
    \* ---- FourRoomGridWorld (FourRoomGridWorld.py 13-125)
    env_agent_location,   \* self._agent_location
    env_target_location,  \* self._target_location
    env_start_location,   \* self._start_location
    env_call,             \* the last call: "reset" or "step"
    env_action,           \* the action of the last step
    env_raised,           \* "none", or the exception the last call raised
    env_reward,           \* what the last step returned
    env_terminated,
    env_before            \* history: the three locations before the last call

envVars == <<env_agent_location, env_target_location, env_start_location, env_call,
             env_action, env_raised, env_reward, env_terminated, env_before>>

VARIABLES
    \* ---- the RLE feature network and the actor (ppo_rle.py 234-299, 334-341, 516)
    feat_params,     \* per parameter of the feature network: its value
    policy_params,   \* per parameter of agent.actor: its value
    blend_calls,     \* calls of update_from_policy_net so far
    netpc,           \* "blend" or "optimize"
    nets_before      \* history: both networks' parameters before the last call

netVars == <<feat_params, policy_params, blend_calls, netpc, nets_before>>

vars == <<filterVars, flatVars, gaeVars, trainVars, seedVars, rmsVars, latentVars,
          lossVars, normVars, paramVars, envVars, netVars>>

\* what an action of one component leaves alone
otherThanFilter == <<flatVars, gaeVars, trainVars, seedVars, rmsVars, latentVars,
    lossVars, normVars, paramVars, envVars, netVars>>
otherThanFlat == <<filterVars, gaeVars, trainVars, seedVars, rmsVars, latentVars,
    lossVars, normVars, paramVars, envVars, netVars>>
otherThanGae == <<filterVars, flatVars, trainVars, seedVars, rmsVars, latentVars,
    lossVars, normVars, paramVars, envVars, netVars>>
otherThanTrain == <<filterVars, flatVars, gaeVars, seedVars, rmsVars, latentVars,
    lossVars, normVars, paramVars, envVars, netVars>>
otherThanSeed == <<filterVars, flatVars, gaeVars, trainVars, rmsVars, latentVars,
    lossVars, normVars, paramVars, envVars, netVars>>
otherThanRms == <<filterVars, flatVars, gaeVars, trainVars, seedVars, latentVars,
    lossVars, normVars, paramVars, envVars, netVars>>
otherThanLatent == <<filterVars, flatVars, gaeVars, trainVars, seedVars, rmsVars,
    lossVars, normVars, paramVars, envVars, netVars>>
otherThanLoss == <<filterVars, flatVars, gaeVars, trainVars, seedVars, rmsVars,
    latentVars, normVars, paramVars, envVars, netVars>>
otherThanNorm == <<filterVars, flatVars, gaeVars, trainVars, seedVars, rmsVars,
    latentVars, lossVars, paramVars, envVars, netVars>>
otherThanParam == <<filterVars, flatVars, gaeVars, trainVars, seedVars, rmsVars, latentVars, lossVars, normVars, envVars, netVars>>
otherThanEnv == <<filterVars, flatVars, gaeVars, trainVars, seedVars, rmsVars, latentVars, lossVars, normVars, paramVars, netVars>>
otherThanNet == <<filterVars, flatVars, gaeVars, trainVars, seedVars, rmsVars, latentVars, lossVars, normVars, paramVars, envVars>>

\* Python's None
None == <<>>

RECURSIVE Pow(_, _)
Pow(b, e) == IF e = 0 THEN 1 ELSE b * Pow(b, e - 1)

(***************************************************************************)
(* RewardForwardFilter                                                     *)
(***************************************************************************)
\* number of environment slots of the vectors handed to the filter
NumSlots == 1
\* number of update calls explored
MaxCalls == 3

Slots == 1..NumSlots

\* self.gamma as a fraction <<numerator, denominator>>: 0.5
FilterGamma == <<1, 2>>

\* fixed-point unit: every value below is an integer number of 1/FScale
FScale == Pow(FilterGamma[2], MaxCalls)

\* x * self.gamma (exact: a value has been decayed fewer than MaxCalls times)
Decay(x) == (x * FilterGamma[1]) \div FilterGamma[2]

\* the reward vectors and the not_done masks a caller passes
RewardVectors == [Slots -> {0, FScale}]
NotDoneMasks == [Slots -> {0, 1}]

\* update, not_done given, self.rewems already set:
\*   mask = torch.where(not_done == 1.0)
\*   self.rewems[mask] = self.rewems[mask] * self.gamma + rews[mask]
\* the slots outside the mask keep their value
MaskedUpdate(acc, rews, not_done) ==
    [n \in Slots |-> IF not_done[n] = 1 THEN Decay(acc[n]) + rews[n] ELSE acc[n]]

\* update, not_done omitted, self.rewems already set:
\*   self.rewems = self.rewems * self.gamma + rews
PlainUpdate(acc, rews) == [n \in Slots |-> Decay(acc[n]) + rews[n]]

\* the component's variables before it runs, and while another component runs
\* "return self.rewems" hands out the accumulator itself,
\* "return deepcopy(self.rewems)" a copy: does the returned vector share the
\* accumulator's storage?
\* a slip: the deepcopy left out
ReturnSharesAlways(not_done) == TRUE

ReturnShares(not_done) == not_done = None

\* The returned vector the caller holds: whether it shares the accumulator's
\* storage, whether update(rews, not_done) returned it, whether the caller
\* wrote into it, whether its contents changed since it was returned, and
\* whether update has been called since.
Held(not_done) ==
    [shares |-> ReturnShares(not_done), masked |-> not_done # None,
     written |-> FALSE, changed |-> FALSE, old |-> FALSE]

\* the vector held when the accumulator's storage is written in place ...
HeldAfterInPlace(v) ==
    [k \in 1..Len(fheld) |->
        IF fheld[k].shares /\ v # rewems THEN [fheld[k] EXCEPT !.changed = TRUE]
        ELSE fheld[k]]
\* ... and when self.rewems is bound to a new tensor
HeldAfterRebind ==
    [k \in 1..Len(fheld) |-> [fheld[k] EXCEPT !.shares = FALSE]]

Aged(held) == [k \in 1..Len(held) |-> [held[k] EXCEPT !.old = TRUE]]

NoWrite == "none"

FilterIdle ==
    /\ rewems = None
    /\ fshare = {}
    /\ fcalls = 0
    /\ frews = None
    /\ fnotdone = None
    /\ fprev = None
    /\ fret = None
    /\ fheld = <<>>
    /\ fwrite = NoWrite

\* RewardForwardFilter.update(rews, not_done).  The caller passes either a
\* vector of its own ("fresh") or, once self.rewems aliases the first vector
\* it was given, that very vector again (rewards[0] of the next rollout).
FilterUpdate ==
    /\ fcalls < MaxCalls
    /\ \E rews \in RewardVectors \cup (IF "rews" \in fshare THEN {rewems} ELSE {}),
          not_done \in NotDoneMasks \cup {None} :
        /\ frews' = rews
        /\ fnotdone' = not_done
        /\ fprev' = rewems
        /\ IF not_done = None
           THEN /\ rewems' = IF rewems = None THEN rews ELSE PlainUpdate(rewems, rews)
                \* return self.rewems: the caller now holds the accumulator itself
                /\ fshare' = (IF rewems = None THEN {"rews"} ELSE {}) \cup {"ret"}
           ELSE /\ rewems' = IF rewems = None THEN rews
                             ELSE MaskedUpdate(rewems, rews, not_done)
                \* return deepcopy(self.rewems): the in-place update keeps the sharing
                /\ fshare' = IF rewems = None THEN {"rews"} ELSE fshare
        /\ fret' = rewems'
        \* the caller keeps the vector it holds, or holds the returned one instead
        /\ \/ fheld' = <<Held(not_done)>>
           \/ fheld' = Aged(IF rewems = None THEN fheld
                            ELSE IF not_done = None THEN HeldAfterRebind
                            ELSE HeldAfterInPlace(rewems'))
    /\ fcalls' = fcalls + 1
    /\ UNCHANGED fwrite
    /\ UNCHANGED otherThanFilter

\* The caller writes into a vector that shares storage with self.rewems
\* (rewards[step] = next_rewards for the row the filter kept a reference to).
FilterCallerWrite ==
    /\ fshare # {}
    /\ fcalls < MaxCalls
    /\ \E v \in RewardVectors :
        /\ v # rewems
        /\ rewems' = v
        /\ fheld' = HeldAfterInPlace(v)
    /\ UNCHANGED <<fshare, fcalls, frews, fnotdone, fprev, fret, fwrite>>
    /\ UNCHANGED otherThanFilter

\* The caller writes into a vector an earlier update returned to it.
FilterCallerWriteReturned ==
    /\ fcalls < MaxCalls
    /\ \E k \in 1..Len(fheld) :
        /\ ~fheld[k].written
        /\ IF fheld[k].shares
           THEN \E v \in RewardVectors : v # rewems /\ rewems' = v
           ELSE UNCHANGED rewems
        /\ fheld' = [fheld EXCEPT ![k].written = TRUE, ![k].changed = TRUE]
        /\ fwrite' = IF ~fheld[k].masked THEN fwrite
                     ELSE IF rewems' = rewems THEN "kept" ELSE "changed"
    /\ UNCHANGED <<fshare, fcalls, frews, fnotdone, fprev, fret>>
    /\ UNCHANGED otherThanFilter

FilterNext == FilterUpdate \/ FilterCallerWrite \/ FilterCallerWriteReturned

(***************************************************************************)
(* Flattening the rollout batch                                            *)
(***************************************************************************)
\* args.num_steps and args.num_envs of the flattened rollout
FlatSteps == 2
FlatEnvs == 3

FlSteps == 0..(FlatSteps - 1)
FlEnvs == 0..(FlatEnvs - 1)
FlIndex == 0..(FlatSteps * FlatEnvs - 1)

\* the (T, N) buffers each script flattens
RndFields == {"obs", "logprobs", "actions", "ext_advantages", "int_advantages",
              "ext_returns", "int_returns", "ext_values", "int_values"}
RleFields == {"obs", "logprobs", "actions", "advantages", "returns", "values"}
FieldsOf(script) == IF script = "rnd" THEN RndFields ELSE RleFields

\* tensor.reshape(-1) of a contiguous (T, N) tensor: row-major order
Reshape(buf) == [k \in FlIndex |-> buf[k \div FlatEnvs][k % FlatEnvs]]

\* latent_vectors.repeat_interleave(num_steps, dim=0): every row of the (N, F)
\* tensor repeated num_steps times in a row
RepeatInterleave(vec, times) == [k \in FlIndex |-> vec[k \div times]]

FlatIdle ==
    /\ flscript = "rnd" /\ rollout = None /\ latent_vectors = None /\ batch = None

\* what a transition holds in a field: the field's name and the transition's datum
FlatStart ==
    /\ flscript \in {"rnd", "rle"}
    /\ \E data \in [FlSteps -> [FlEnvs -> {0, 1}]] :
         rollout = [f \in FieldsOf(flscript) |->
                      [t \in FlSteps |-> [n \in FlEnvs |-> <<f, data[t][n]>>]]]
    /\ latent_vectors \in [FlEnvs -> {0, 1}]
    /\ batch = None

\* ppo_rnd.py 542-551: b_obs = obs.reshape(...), ..., b_int_values = int_values.reshape(-1)
FlattenRnd ==
    /\ flscript = "rnd"
    /\ batch = None
    /\ batch' = [f \in RndFields |-> Reshape(rollout[f])]
    /\ UNCHANGED <<flscript, rollout, latent_vectors>>
    /\ UNCHANGED otherThanFlat

\* ppo_rle.py 534-541: the six reshapes, and
\* b_latents = latent_vectors.repeat_interleave(args.num_steps, dim=0)
FlattenRle ==
    /\ flscript = "rle"
    /\ batch = None
    /\ batch' = [f \in RleFields \cup {"latents"} |->
                    IF f = "latents"
                    THEN RepeatInterleave(latent_vectors, FlatSteps)
                    ELSE Reshape(rollout[f])]
    /\ UNCHANGED <<flscript, rollout, latent_vectors>>
    /\ UNCHANGED otherThanFlat

FlatNext == FlattenRnd \/ FlattenRle

(***************************************************************************)
(* Advantage estimation (GAE)                                              *)
(***************************************************************************)
\* args.num_steps and args.num_envs of the rollout handed to the estimator
GaeSteps == 2
GaeEnvs == 2

GSteps == 0..(GaeSteps - 1)
GEnvs == 0..(GaeEnvs - 1)

\* <<args.gamma, args.int_gamma, args.gae_lambda>>
GaeParams == {<<0, 0, 0>>, <<0, 2, 0>>, <<2, 3, 2>>}

gamma == gparams[1]
int_gamma == gparams[2]
gae_lambda == gparams[3]

\* How a buffer is filled: a code c >= 0 is the constant c, the code -1 gives
\* every cell its own value.
GaeFill(code, t, n) == IF code < 0 THEN 1 + t * GaeEnvs + n ELSE code

\* The rewards and value estimates handed to the estimator: a filling for
\* rewards, values, curiosity_rewards, int_values; next values are row T.
GaeScenarios == {
    [r |-> 1, v |-> 2, cr |-> 3, iv |-> 1],
    [r |-> -1, v |-> -1, cr |-> -1, iv |-> -1],
    [r |-> -1, v |-> 0, cr |-> 1, iv |-> -1] }

ZeroRow == [n \in GEnvs |-> 0]
\* torch.zeros_like(rewards)
ZerosLike == [t \in GSteps |-> ZeroRow]

GaeIdle ==
    /\ gscript = "rnd" /\ gparams = None /\ rewards = None
    /\ curiosity_rewards = None /\ dones = None /\ ext_values = None
    /\ int_values = None /\ next_done = None /\ next_value_ext = None
    /\ next_value_int = None /\ gt = 0 /\ ext_lastgaelam = None
    /\ int_lastgaelam = None /\ ext_advantages = None /\ int_advantages = None
    /\ ext_returns = None /\ int_returns = None

\* The state when the estimator starts: the rollout buffers are full,
\* advantages = torch.zeros_like(rewards), lastgaelam = 0, t = num_steps - 1.
GaeStart ==
    /\ gscript \in {"rnd", "rle"}
    /\ gparams \in GaeParams
    /\ dones \in [GSteps -> [GEnvs -> {0, 1}]]
    /\ next_done \in [GEnvs -> {0, 1}]
    /\ \E sc \in GaeScenarios :
        /\ rewards = [t \in GSteps |-> [n \in GEnvs |-> GaeFill(sc.r, t, n)]]
        /\ ext_values = [t \in GSteps |-> [n \in GEnvs |-> GaeFill(sc.v, t, n)]]
        /\ next_value_ext = [n \in GEnvs |-> GaeFill(sc.v, GaeSteps, n)]
        /\ IF gscript = "rnd"
           THEN /\ curiosity_rewards =
                       [t \in GSteps |-> [n \in GEnvs |-> GaeFill(sc.cr, t, n)]]
                /\ int_values = [t \in GSteps |-> [n \in GEnvs |-> GaeFill(sc.iv, t, n)]]
                /\ next_value_int = [n \in GEnvs |-> GaeFill(sc.iv, GaeSteps, n)]
           ELSE /\ curiosity_rewards = None
                /\ int_values = None
                /\ next_value_int = None
    /\ gt = GaeSteps - 1
    /\ ext_lastgaelam = ZeroRow
    /\ ext_advantages = ZerosLike
    /\ int_lastgaelam = IF gscript = "rnd" THEN ZeroRow ELSE None
    /\ int_advantages = IF gscript = "rnd" THEN ZerosLike ELSE None
    /\ ext_returns = None
    /\ int_returns = None

\* ---- ppo_rle.py 521-529
\* a slip: the done flag of step t instead of step t + 1
RleNextNonTerminalOffByOne(t) ==
    IF t = GaeSteps - 1
    THEN [n \in GEnvs |-> 1 - next_done[n]]
    ELSE [n \in GEnvs |-> 1 - dones[t][n]]

\* nextnonterminal = 1.0 - next_done  /  1.0 - dones[t + 1]
RleNextNonTerminal(t) ==
    IF t = GaeSteps - 1
    THEN [n \in GEnvs |-> 1 - next_done[n]]
    ELSE [n \in GEnvs |-> 1 - dones[t + 1][n]]

\* nextvalues = next_value  /  values[t + 1]
RleNextValues(t) == IF t = GaeSteps - 1 THEN next_value_ext ELSE ext_values[t + 1]

\* a slip: the discount left out of the bootstrap term
RleDeltaNoGamma(t) ==
    [n \in GEnvs |-> rewards[t][n]
                     + RleNextValues(t)[n] * RleNextNonTerminal(t)[n]
                     - ext_values[t][n]]

\* delta = rewards[t] + args.gamma * nextvalues * nextnonterminal - values[t]
RleDelta(t) ==
    [n \in GEnvs |-> rewards[t][n]
                     + gamma * RleNextValues(t)[n] * RleNextNonTerminal(t)[n]
                     - ext_values[t][n]]

\* a slip: lambda left out of the accumulation
RleLastGaeLamNoLambda(t) ==
    [n \in GEnvs |-> RleDelta(t)[n]
                     + gamma * RleNextNonTerminal(t)[n] * ext_lastgaelam[n]]

\* delta + args.gamma * args.gae_lambda * nextnonterminal * lastgaelam
RleLastGaeLam(t) ==
    [n \in GEnvs |-> RleDelta(t)[n]
                     + gamma * gae_lambda * RleNextNonTerminal(t)[n] * ext_lastgaelam[n]]

\* one pass of the body of "for t in reversed(range(args.num_steps))"
RleGaeStep ==
    /\ gscript = "rle"
    /\ gt >= 0
    /\ ext_lastgaelam' = RleLastGaeLam(gt)
    /\ ext_advantages' = [ext_advantages EXCEPT ![gt] = RleLastGaeLam(gt)]
    /\ gt' = gt - 1
    /\ UNCHANGED <<gaeInputs, int_lastgaelam, int_advantages, ext_returns, int_returns>>
    /\ UNCHANGED otherThanGae

\* returns = advantages + values
RleReturns ==
    /\ gscript = "rle"
    /\ gt < 0
    /\ ext_returns = None
    /\ ext_returns' = [t \in GSteps |->
                         [n \in GEnvs |-> ext_advantages[t][n] + ext_values[t][n]]]
    /\ UNCHANGED <<gaeInputs, gt, ext_lastgaelam, int_lastgaelam, ext_advantages,
                   int_advantages, int_returns>>
    /\ UNCHANGED otherThanGae

\* ---- ppo_rnd.py 519-540
\* ext_nextnonterminal = 1.0 - next_done.float()  /  1.0 - dones[t + 1]
ExtNextNonTerminal(t) ==
    IF t = GaeSteps - 1
    THEN [n \in GEnvs |-> 1 - next_done[n]]
    ELSE [n \in GEnvs |-> 1 - dones[t + 1][n]]

\* a slip: the intrinsic stream masked like the extrinsic one
IntNextNonTerminalMasked(t) == ExtNextNonTerminal(t)

\* int_nextnonterminal = 1.0 in both branches
IntNextNonTerminal(t) == IF t = GaeSteps - 1 THEN [n \in GEnvs |-> 1] ELSE [n \in GEnvs |-> 1]

ExtNextValues(t) == IF t = GaeSteps - 1 THEN next_value_ext ELSE ext_values[t + 1]
IntNextValues(t) == IF t = GaeSteps - 1 THEN next_value_int ELSE int_values[t + 1]

\* ext_delta = rewards[t] + args.gamma * ext_nextvalues * ext_nextnonterminal - ext_values[t]
ExtDelta(t) ==
    [n \in GEnvs |-> rewards[t][n]
                     + gamma * ExtNextValues(t)[n] * ExtNextNonTerminal(t)[n]
                     - ext_values[t][n]]

\* int_delta = curiosity_rewards[t] + args.int_gamma * int_nextvalues
\*             * int_nextnonterminal - int_values[t]
IntDelta(t) ==
    [n \in GEnvs |-> curiosity_rewards[t][n]
                     + int_gamma * IntNextValues(t)[n] * IntNextNonTerminal(t)[n]
                     - int_values[t][n]]

ExtLastGaeLam(t) ==
    [n \in GEnvs |-> ExtDelta(t)[n]
                     + gamma * gae_lambda * ExtNextNonTerminal(t)[n] * ext_lastgaelam[n]]

IntLastGaeLam(t) ==
    [n \in GEnvs |-> IntDelta(t)[n]
                     + int_gamma * gae_lambda * IntNextNonTerminal(t)[n] * int_lastgaelam[n]]

\* one pass of the body of "for t in reversed(range(args.num_steps))"
RndGaeStep ==
    /\ gscript = "rnd"
    /\ gt >= 0
    /\ ext_lastgaelam' = ExtLastGaeLam(gt)
    /\ ext_advantages' = [ext_advantages EXCEPT ![gt] = ExtLastGaeLam(gt)]
    /\ int_lastgaelam' = IntLastGaeLam(gt)
    /\ int_advantages' = [int_advantages EXCEPT ![gt] = IntLastGaeLam(gt)]
    /\ gt' = gt - 1
    /\ UNCHANGED <<gaeInputs, ext_returns, int_returns>>
    /\ UNCHANGED otherThanGae

\* ext_returns = ext_advantages + ext_values; int_returns = int_advantages + int_values
RndReturns ==
    /\ gscript = "rnd"
    /\ gt < 0
    /\ ext_returns = None
    /\ ext_returns' = [t \in GSteps |->
                         [n \in GEnvs |-> ext_advantages[t][n] + ext_values[t][n]]]
    /\ int_returns' = [t \in GSteps |->
                         [n \in GEnvs |-> int_advantages[t][n] + int_values[t][n]]]
    /\ UNCHANGED <<gaeInputs, gt, ext_lastgaelam, int_lastgaelam, ext_advantages,
                   int_advantages>>
    /\ UNCHANGED otherThanGae

GaeNext == RleGaeStep \/ RleReturns \/ RndGaeStep \/ RndReturns

(***************************************************************************)
(* The training scripts' control flow                                      *)
(***************************************************************************)
\* the largest configuration explored
MaxTrainEnvs == 2
MaxTrainSteps == 2
MaxMinibatches == 3
MaxTimesteps == 4

\* args.update_epochs, args.num_iterations_obs_norm_init
UpdateEpochs == {1, 2}
ObsNormInit == {0, 2}

\* a slip: the number of iterations is rounded up
DerivedRoundedUp(a) ==
    LET batch_size == a.num_envs * a.num_steps
    IN [a EXCEPT !.batch_size = batch_size,
                 !.minibatch_size = batch_size \div a.num_minibatches,
                 !.num_iterations = (a.total_timesteps + batch_size - 1) \div batch_size]

\* parse_args (ppo_rnd.py 138-142) / ppo_rle.py 364-367: the sizes are derived
\* by integer division; nothing is checked
Derived(a) ==
    LET batch_size == a.num_envs * a.num_steps
    IN [a EXCEPT !.batch_size = batch_size,
                 !.minibatch_size = batch_size \div a.num_minibatches,
                 !.num_iterations = a.total_timesteps \div batch_size]

Configurations(script) ==
    { Derived([num_envs |-> ne, num_steps |-> ns, num_minibatches |-> nm,
               total_timesteps |-> tt, update_epochs |-> ue, target_kl |-> tk,
               norm_adv |-> na, num_iterations_obs_norm_init |-> oi,
               batch_size |-> 0, minibatch_size |-> 0, num_iterations |-> 0]) :
        ne \in 1..MaxTrainEnvs, ns \in 1..MaxTrainSteps, nm \in 1..MaxMinibatches,
        tt \in {MaxTimesteps \div 2, MaxTimesteps - 1, MaxTimesteps}, ue \in UpdateEpochs,
        tk \in {"None", "set"}, na \in BOOLEAN,
        oi \in IF script = "rnd" THEN ObsNormInit ELSE {0} }

\* The normalizations and the epsilon term of each denominator, as
\* <<mantissa, exponent>>; <<0, 0>> when the code adds none.
\*   ppo_rnd.py 487: / torch.sqrt(obs_rms.var)
\*   ppo_rnd.py 503: rewards /= torch.sqrt(ext_reward_rms.var)
\*   ppo_rnd.py 509: curiosity_rewards /= torch.sqrt(int_reward_rms.var)
\*   ppo_rnd.py 560: / torch.sqrt((obs_rms.var))
\*   ppo_rnd.py 597, ppo_rle.py 563: / (mb_advantages.std() + 1e-8)
\*   ppo_rle.py 265: / (self.feat_std + 1e-8)
DenominatorEps(site) ==
    CASE site = "obs_rollout" -> <<0, 0>>
      [] site = "ext_reward" -> <<0, 0>>
      [] site = "int_reward" -> <<0, 0>>
      [] site = "obs_batch" -> <<0, 0>>
      [] site = "advantage" -> <<1, -8>>
      [] site = "feature" -> <<1, -8>>

Division(site) == [site |-> site, eps |-> DenominatorEps(site)]

Stats == {"obs_rms", "ext_reward_rms", "int_reward_rms", "feature_rms"}

\* The permutations torch.randperm / np.random.shuffle may return that are
\* followed: the identity, the reversal and the rotation by one.
Shuffles(n) ==
    { [i \in 1..n |-> i - 1], [i \in 1..n |-> n - i], [i \in 1..n |-> i % n] }

Min(a, b) == IF a < b THEN a ELSE b

\* b_inds[start:end]: a slice stops at the end of the sequence
Slice(inds, from, end) == SubSeq(inds, from + 1, Min(end, Len(inds)))

\* Whether approx_kl = ((ratio - 1) - logratio).mean() and old_approx_kl =
\* (-logratio).mean() of a minibatch exceed args.target_kl (neither is
\* compared with anything when there is no target).
NoKl == [approx |-> FALSE, old |-> FALSE]
KlEstimates ==
    IF args.target_kl = "None" THEN {NoKl}
    ELSE [approx : BOOLEAN, old : BOOLEAN]

\* a slip: the old-style estimate decides
KlStopOldStyle(est) == args.target_kl # "None" /\ est.old

\* if args.target_kl is not None and approx_kl > args.target_kl
KlStop(est) == args.target_kl # "None" /\ est.approx

OptIdle ==
    /\ epoch_inds = <<>> /\ minibatches = <<>> /\ kl = NoKl /\ epochs_run = 0
    /\ kl_seen = FALSE /\ late_steps = 0 /\ epoch_end_high = FALSE
    /\ steps_after_high = 0

TrainIdle ==
    /\ tscript = "rnd" /\ args = None /\ pc = "idle" /\ iteration = 0
    /\ step = 0 /\ epoch = 0 /\ start = 0 /\ global_step = 0 /\ env_steps = 0
    /\ opt_steps = 0 /\ next_ob = 0 /\ rms_count = None /\ stats_updates = 0
    /\ policy_version = 0 /\ blends = 0 /\ blend_version = 0 /\ divisions = {}
    /\ OptIdle

\* the script has parsed its arguments and derived the sizes
TrainStart ==
    /\ tscript \in {"rnd", "rle"}
    /\ args \in Configurations(tscript)
    /\ pc = "start"
    /\ iteration = 0 /\ step = 0 /\ epoch = 0 /\ start = 0
    /\ global_step = 0 /\ env_steps = 0 /\ opt_steps = 0 /\ next_ob = 0
    /\ rms_count = [s \in Stats |-> 0]
    /\ stats_updates = 0 /\ policy_version = 0 /\ blends = 0 /\ blend_version = 0
    /\ divisions = {}
    /\ OptIdle

\* enter "for update in range(1, num_updates + 1)" / "for iteration in ..."
EnterLoop(it) ==
    /\ iteration' = it
    /\ pc' = IF it <= args.num_iterations THEN "rollout" ELSE "done"
    /\ step' = 0
    /\ stats_updates' = 0
    /\ blends' = 0
    /\ epoch_inds' = <<>> /\ minibatches' = <<>> /\ kl' = NoKl /\ epochs_run' = 0
    /\ kl_seen' = FALSE /\ late_steps' = 0 /\ epoch_end_high' = FALSE
    /\ steps_after_high' = 0

\* seeding, environments, networks, storage, envs.reset(): no environment step
\* (ppo_rnd.py 336-397, ppo_rle.py 388-434)
Setup ==
    /\ pc = "start"
    /\ IF tscript = "rnd"
       THEN /\ pc' = "warmup"
            /\ UNCHANGED <<iteration, step, stats_updates, blends, optVars>>
       ELSE EnterLoop(1)
    /\ UNCHANGED <<tscript, args, epoch, start, global_step, env_steps, opt_steps,
                   next_ob, rms_count, policy_version, blend_version, divisions>>
    /\ UNCHANGED otherThanTrain

\* ppo_rnd.py 401-416: one random-action step of the warm-up
WarmupStep ==
    /\ pc = "warmup"
    /\ step < args.num_steps * args.num_iterations_obs_norm_init
    /\ env_steps' = env_steps + 1
    /\ IF step % args.num_steps = 0
       THEN /\ rms_count' = [rms_count EXCEPT
                   !["obs_rms"] = @ + (next_ob + 1) * args.num_envs]
            /\ stats_updates' = stats_updates + 1
            /\ next_ob' = 0
       ELSE /\ next_ob' = next_ob + 1
            /\ UNCHANGED <<rms_count, stats_updates>>
    /\ step' = step + 1
    /\ UNCHANGED <<tscript, args, pc, iteration, epoch, start, global_step,
                   opt_steps, policy_version, blends, blend_version, divisions>>
    /\ UNCHANGED optVars
    /\ UNCHANGED otherThanTrain

\* ppo_rnd.py 418-420: the warm-up loop has ended
WarmupEnd ==
    /\ pc = "warmup"
    /\ step = args.num_steps * args.num_iterations_obs_norm_init
    /\ EnterLoop(1)
    /\ UNCHANGED <<tscript, args, epoch, start, global_step, env_steps, opt_steps,
                   next_ob, rms_count, policy_version, blend_version, divisions>>
    /\ UNCHANGED otherThanTrain

\* ppo_rnd.py 428-492: one step of the rollout; the next observation is
\* normalized for the RND networks
RndRolloutStep ==
    /\ tscript = "rnd"
    /\ pc = "rollout"
    /\ step < args.num_steps
    /\ global_step' = global_step + args.num_envs
    /\ env_steps' = env_steps + 1
    /\ divisions' = divisions \cup {Division("obs_rollout")}
    /\ step' = step + 1
    /\ UNCHANGED <<tscript, args, pc, iteration, epoch, start, opt_steps, next_ob,
                   rms_count, stats_updates, policy_version, blends, blend_version>>
    /\ UNCHANGED optVars
    /\ UNCHANGED otherThanTrain

\* ppo_rle.py 448-489: one step of the rollout; compute_reward normalizes the
\* features, and update_stats(features) folds the step's num_envs features in
RleRolloutStep ==
    /\ tscript = "rle"
    /\ pc = "rollout"
    /\ step < args.num_steps
    /\ global_step' = global_step + args.num_envs
    /\ env_steps' = env_steps + 1
    /\ divisions' = divisions \cup {Division("feature")}
    /\ rms_count' = [rms_count EXCEPT !["feature_rms"] = @ + args.num_envs]
    /\ stats_updates' = stats_updates + 1
    /\ step' = step + 1
    /\ UNCHANGED <<tscript, args, pc, iteration, epoch, start, opt_steps, next_ob,
                   policy_version, blends, blend_version>>
    /\ UNCHANGED optVars
    /\ UNCHANGED otherThanTrain

\* ppo_rnd.py 498-562: reward normalization of both streams, advantages,
\* flattening, obs_rms.update(b_obs) and the normalization of the batch
RndAfterRollout ==
    /\ tscript = "rnd"
    /\ pc = "rollout"
    /\ step = args.num_steps
    /\ rms_count' = [rms_count EXCEPT
           !["ext_reward_rms"] = @ + args.num_steps * args.num_envs,
           !["int_reward_rms"] = @ + args.num_steps * args.num_envs,
           !["obs_rms"] = @ + args.batch_size]
    /\ divisions' = divisions \cup {Division("ext_reward"), Division("int_reward"),
                                    Division("obs_batch")}
    /\ pc' = "optimize"
    /\ epoch' = 0
    /\ start' = 0
    /\ UNCHANGED <<tscript, args, iteration, step, global_step, env_steps, opt_steps,
                   next_ob, stats_updates, policy_version, blends, blend_version>>
    /\ UNCHANGED optVars
    /\ UNCHANGED otherThanTrain

\* ppo_rle.py 512-541: update_stats(episode_features) with the num_steps *
\* num_envs features of the rollout, update_from_policy_net(agent.actor),
\* advantages, flattening
RleAfterRollout ==
    /\ tscript = "rle"
    /\ pc = "rollout"
    /\ step = args.num_steps
    /\ rms_count' = [rms_count EXCEPT
           !["feature_rms"] = @ + args.num_steps * args.num_envs]
    /\ stats_updates' = stats_updates + 1
    /\ blends' = blends + 1
    /\ blend_version' = policy_version
    /\ pc' = "optimize"
    /\ epoch' = 0
    /\ start' = 0
    /\ UNCHANGED <<tscript, args, iteration, step, global_step, env_steps, opt_steps,
                   next_ob, policy_version, divisions>>
    /\ UNCHANGED optVars
    /\ UNCHANGED otherThanTrain

\* b_inds = torch.randperm(args.batch_size) / np.random.shuffle(b_inds) at the
\* start of an epoch (ppo_rnd.py 567, ppo_rle.py 546)
Shuffle ==
    /\ pc = "optimize"
    /\ epoch_inds = <<>>
    /\ epoch_inds' \in Shuffles(args.batch_size)
    /\ UNCHANGED <<tscript, args, pc, iteration, step, epoch, start, global_step,
                   env_steps, opt_steps, next_ob, rms_count, stats_updates,
                   policy_version, blends, blend_version, divisions>>
    /\ UNCHANGED <<minibatches, kl, epochs_run, kl_seen, late_steps, epoch_end_high,
                   steps_after_high>>
    /\ UNCHANGED otherThanTrain

\* range(0, args.batch_size, args.minibatch_size) with minibatch_size = 0:
\* ValueError (ppo_rnd.py 568, ppo_rle.py 547)
MinibatchRangeError ==
    /\ pc = "optimize"
    /\ epoch_inds # <<>>
    /\ args.minibatch_size = 0
    /\ pc' = "error"
    /\ UNCHANGED <<tscript, args, iteration, step, epoch, start, global_step,
                   env_steps, opt_steps, next_ob, rms_count, stats_updates,
                   policy_version, blends, blend_version, divisions>>
    /\ UNCHANGED optVars
    /\ UNCHANGED otherThanTrain

\* one minibatch: the advantages are normalized when args.norm_adv, then one
\* optimizer step (ppo_rnd.py 569-629, ppo_rle.py 548-595)
MinibatchStep ==
    /\ pc = "optimize"
    /\ epoch_inds # <<>>
    /\ args.minibatch_size > 0
    /\ start < args.batch_size
    /\ minibatches' = Append(minibatches,
                             Slice(epoch_inds, start, start + args.minibatch_size))
    /\ kl' \in KlEstimates
    /\ kl_seen' = (kl_seen \/ KlStop(kl'))
    /\ late_steps' = IF kl_seen THEN late_steps + 1 ELSE late_steps
    /\ steps_after_high' = IF epoch_end_high THEN steps_after_high + 1
                           ELSE steps_after_high
    /\ UNCHANGED <<epoch_inds, epochs_run, epoch_end_high>>
    /\ divisions' = IF args.norm_adv THEN divisions \cup {Division("advantage")}
                    ELSE divisions
    /\ opt_steps' = opt_steps + 1
    /\ policy_version' = policy_version + 1
    /\ start' = start + args.minibatch_size
    /\ UNCHANGED <<tscript, args, pc, iteration, step, epoch, global_step, env_steps,
                   next_ob, rms_count, stats_updates, blends, blend_version>>
    /\ UNCHANGED otherThanTrain

\* the minibatch loop of the epoch has ended and the epoch loop goes on:
\* target_kl is None, or approx_kl <= target_kl
EpochEnd ==
    /\ pc = "optimize"
    /\ epoch_inds # <<>>
    /\ args.minibatch_size > 0
    /\ start >= args.batch_size
    /\ ~KlStop(kl)
    /\ epoch_inds' = <<>>
    /\ minibatches' = <<>>
    /\ epochs_run' = epochs_run + 1
    /\ epoch_end_high' = (epoch_end_high \/ (args.target_kl # "None" /\ kl.approx))
    /\ UNCHANGED <<kl, kl_seen, late_steps, steps_after_high>>
    /\ epoch' = epoch + 1
    /\ start' = 0
    /\ pc' = IF epoch + 1 < args.update_epochs THEN "optimize" ELSE "log"
    /\ UNCHANGED <<tscript, args, iteration, step, global_step, env_steps, opt_steps,
                   next_ob, rms_count, stats_updates, policy_version, blends,
                   blend_version, divisions>>
    /\ UNCHANGED otherThanTrain

\* ... and approx_kl > target_kl: break (ppo_rnd.py 631-633, ppo_rle.py 597-598)
EpochEndKlBreak ==
    /\ pc = "optimize"
    /\ epoch_inds # <<>>
    /\ args.minibatch_size > 0
    /\ start >= args.batch_size
    /\ KlStop(kl)
    /\ epoch_inds' = <<>>
    /\ minibatches' = <<>>
    /\ epochs_run' = epochs_run + 1
    /\ epoch_end_high' = (epoch_end_high \/ (args.target_kl # "None" /\ kl.approx))
    /\ UNCHANGED <<kl, kl_seen, late_steps, steps_after_high>>
    /\ pc' = "log"
    /\ UNCHANGED <<tscript, args, iteration, step, epoch, start, global_step,
                   env_steps, opt_steps, next_ob, rms_count, stats_updates,
                   policy_version, blends, blend_version, divisions>>
    /\ UNCHANGED otherThanTrain

\* the metrics of the iteration are logged and the next iteration starts
\* (ppo_rnd.py 635-695, ppo_rle.py 600-615)
LogMetrics ==
    /\ pc = "log"
    /\ EnterLoop(iteration + 1)
    /\ UNCHANGED <<tscript, args, epoch, start, global_step, env_steps, opt_steps,
                   next_ob, rms_count, policy_version, blend_version, divisions>>
    /\ UNCHANGED otherThanTrain

TrainNext ==
    \/ Setup \/ WarmupStep \/ WarmupEnd
    \/ RndRolloutStep \/ RleRolloutStep \/ RndAfterRollout \/ RleAfterRollout
    \/ Shuffle \/ MinibatchRangeError \/ MinibatchStep \/ EpochEnd \/ EpochEndKlBreak
    \/ LogMetrics

(***************************************************************************)
(* The random generators of a run, and two runs side by side                *)
(***************************************************************************)
\* the generators are congruential generators over 0..RngMod-1; a generator
\* nobody has seeded takes its seed from the operating system's entropy
RngMod == 8
SeedRoom == 2        \* the agent moves in a SeedRoom x SeedRoom corner of a room
SeedSteps == 2       \* steps of the warm-up and of a rollout
SeedIterations == 2

Runs == {1, 2}
Seeds == {0, 1}
Entropy == 0..(RngMod - 1)

\* a generator is <<>> until it is seeded and <<state>> from then on
Unseeded == <<>>
Seeded(x) == <<x % RngMod>>
Draw(g) == g[1]
Advance(g) == <<(5 * g[1] + 3) % RngMod>>

\* FourRoomGridWorld.reset: the location is drawn from self.np_random
LocationOf(g) == <<g % SeedRoom, (g \div SeedRoom) % SeedRoom>>

\* FourRoomGridWorld._action_to_direction
ActionToDirection(a) ==
    CASE a = 0 -> <<1, 0>>
      [] a = 1 -> <<0, 1>>
      [] a = 2 -> <<-1, 0>>
      [] a = 3 -> <<0, -1>>

Clip(x, lo, hi) == IF x < lo THEN lo ELSE IF x > hi THEN hi ELSE x

\* FourRoomGridWorld.step, away from the walls and the target: the move,
\* clipped to the grid
EnvStep(loc, a) ==
    <<Clip(loc[1] + ActionToDirection(a)[1], 0, SeedRoom - 1),
      Clip(loc[2] + ActionToDirection(a)[2], 0, SeedRoom - 1)>>

\* Categorical(...).sample(): a draw of torch's generator under the
\* distribution the network gives for the observation (and the latent)
PolicySample(g, loc, lat) == (g + loc[1] + 2 * loc[2] + lat) % 4

\* torch.randperm / np.random.shuffle of a batch of two
Permutation(g) == IF g % 2 = 0 THEN <<0, 1>> ELSE <<1, 0>>

SeedIdle ==
    /\ rscript = "rnd" /\ seed = 0 /\ rpc = "idle" /\ rstep = 0 /\ riter = 0
    /\ torch_rng = None /\ numpy_rng = None /\ env_rng = None
    /\ space_rng = None /\ z = None /\ agent_location = None
    /\ action = None /\ b_inds = None

\* two processes start the same script with the same seed; no generator is
\* seeded yet
SeedStart ==
    /\ rscript \in {"rnd", "rle"}
    /\ seed \in Seeds
    /\ rpc = "start" /\ rstep = 0 /\ riter = 0
    /\ torch_rng = [r \in Runs |-> Unseeded]
    /\ numpy_rng = [r \in Runs |-> Unseeded]
    /\ env_rng = [r \in Runs |-> Unseeded]
    /\ space_rng = [r \in Runs |-> Unseeded]
    /\ z = [r \in Runs |-> 0]
    /\ agent_location = [r \in Runs |-> None]
    /\ action = [r \in Runs |-> None]
    /\ b_inds = [r \in Runs |-> None]

\* random.seed, np.random.seed, torch.manual_seed (ppo_rnd.py 337-339,
\* ppo_rle.py 389-391), then the networks are initialized from torch's generator
SeedGenerators ==
    /\ rpc = "start"
    /\ torch_rng' = [r \in Runs |-> Advance(Seeded(seed))]
    /\ numpy_rng' = [r \in Runs |-> Seeded(seed)]
    /\ rpc' = IF rscript = "rle" THEN "latents" ELSE "reset"
    /\ UNCHANGED <<rscript, seed, rstep, riter, env_rng, space_rng, z,
                   agent_location, action, b_inds>>
    /\ UNCHANGED otherThanSeed

\* ppo_rle.py 424-427: feature_network.sample_z draws with torch.randn
RleSampleLatents ==
    /\ rpc = "latents"
    /\ z' = [r \in Runs |-> Draw(torch_rng[r]) % 2]
    /\ torch_rng' = [r \in Runs |-> Advance(torch_rng[r])]
    /\ rpc' = "reset"
    /\ UNCHANGED <<rscript, seed, rstep, riter, numpy_rng, env_rng, space_rng,
                   agent_location, action, b_inds>>
    /\ UNCHANGED otherThanSeed

\* ppo_rle.py 432: envs.reset(seed=args.seed) seeds the environment's generator
RleReset ==
    /\ rscript = "rle"
    /\ rpc = "reset"
    /\ agent_location' = [r \in Runs |-> LocationOf(Draw(Seeded(seed)))]
    /\ env_rng' = [r \in Runs |-> Advance(Seeded(seed))]
    /\ rpc' = "rollout"
    /\ UNCHANGED <<rscript, seed, rstep, riter, torch_rng, numpy_rng, space_rng,
                   z, action, b_inds>>
    /\ UNCHANGED otherThanSeed

\* ppo_rnd.py 395: envs.reset() passes no seed: each run's environment seeds
\* its generator from entropy
RndReset ==
    /\ rscript = "rnd"
    /\ rpc = "reset"
    /\ \E e \in [Runs -> Entropy] :
          /\ agent_location' = [r \in Runs |-> LocationOf(Draw(Seeded(e[r])))]
          /\ env_rng' = [r \in Runs |-> Advance(Seeded(e[r]))]
    /\ rpc' = "warmup"
    /\ UNCHANGED <<rscript, seed, rstep, riter, torch_rng, numpy_rng, space_rng,
                   z, action, b_inds>>
    /\ UNCHANGED otherThanSeed

\* ppo_rnd.py 401-410: envs.action_space.sample() draws from the space's own
\* generator, which nothing seeds: it is seeded from entropy at its first use
RndWarmupStep ==
    /\ rpc = "warmup"
    /\ rstep < SeedSteps
    /\ \E e \in [Runs -> Entropy] :
          LET g == [r \in Runs |-> IF space_rng[r] = Unseeded THEN Seeded(e[r])
                                   ELSE space_rng[r]]
          IN /\ (\A r \in Runs : space_rng[r] # Unseeded => e[r] = 0)
             /\ action' = [r \in Runs |-> Draw(g[r]) % 4]
             /\ space_rng' = [r \in Runs |-> Advance(g[r])]
             /\ agent_location' =
                    [r \in Runs |-> EnvStep(agent_location[r], Draw(g[r]) % 4)]
    /\ rstep' = rstep + 1
    /\ UNCHANGED <<rscript, seed, rpc, riter, torch_rng, numpy_rng, env_rng, z, b_inds>>
    /\ UNCHANGED otherThanSeed

\* ppo_rnd.py 418-420
RndWarmupEnd ==
    /\ rpc = "warmup"
    /\ rstep = SeedSteps
    /\ rpc' = "rollout"
    /\ rstep' = 0
    /\ UNCHANGED <<rscript, seed, riter, torch_rng, numpy_rng, env_rng, space_rng,
                   z, agent_location, action, b_inds>>
    /\ UNCHANGED otherThanSeed

\* one rollout step: the action is sampled with torch's generator and the
\* environment steps (ppo_rnd.py 437-450, ppo_rle.py 452-460)
SeedRolloutStep ==
    /\ rpc = "rollout"
    /\ rstep < SeedSteps
    /\ action' = [r \in Runs |-> PolicySample(Draw(torch_rng[r]), agent_location[r], z[r])]
    /\ torch_rng' = [r \in Runs |-> Advance(torch_rng[r])]
    /\ agent_location' = [r \in Runs |-> EnvStep(agent_location[r], action'[r])]
    /\ rstep' = rstep + 1
    /\ UNCHANGED <<rscript, seed, rpc, riter, numpy_rng, env_rng, space_rng, z, b_inds>>
    /\ UNCHANGED otherThanSeed

\* ppo_rnd.py 567: b_inds = torch.randperm(args.batch_size)
RndShuffle ==
    /\ rscript = "rnd"
    /\ rpc = "rollout"
    /\ rstep = SeedSteps
    /\ b_inds' = [r \in Runs |-> Permutation(Draw(torch_rng[r]))]
    /\ torch_rng' = [r \in Runs |-> Advance(torch_rng[r])]
    /\ riter' = riter + 1
    /\ rstep' = 0
    /\ rpc' = IF riter + 1 < SeedIterations THEN "rollout" ELSE "done"
    /\ UNCHANGED <<rscript, seed, numpy_rng, env_rng, space_rng, z,
                   agent_location, action>>
    /\ UNCHANGED otherThanSeed

\* ppo_rle.py 546: np.random.shuffle(b_inds)
RleShuffle ==
    /\ rscript = "rle"
    /\ rpc = "rollout"
    /\ rstep = SeedSteps
    /\ b_inds' = [r \in Runs |-> Permutation(Draw(numpy_rng[r]))]
    /\ numpy_rng' = [r \in Runs |-> Advance(numpy_rng[r])]
    /\ riter' = riter + 1
    /\ rstep' = 0
    /\ rpc' = IF riter + 1 < SeedIterations THEN "rollout" ELSE "done"
    /\ UNCHANGED <<rscript, seed, torch_rng, env_rng, space_rng, z,
                   agent_location, action>>
    /\ UNCHANGED otherThanSeed

SeedNext ==
    \/ SeedGenerators \/ RleSampleLatents \/ RleReset \/ RndReset
    \/ RndWarmupStep \/ RndWarmupEnd \/ SeedRolloutStep \/ RndShuffle \/ RleShuffle

(***************************************************************************)
(* RunningMeanStd                                                          *)
(***************************************************************************)
\* Numbers are exact fractions <<p, q>> in lowest terms with q > 0; <<0, 0>>
\* is the floating-point NaN, which every operation passes on.
NaN == <<0, 0>>
IsNaN(x) == x[2] = 0

Abs(i) == IF i < 0 THEN -i ELSE i

RECURSIVE Gcd(_, _)
Gcd(a, b) == IF b = 0 THEN a ELSE Gcd(b, a % b)

Frac(p, q) ==
    IF q = 0 THEN NaN
    ELSE LET g == Gcd(Abs(p), Abs(q))
             sgn == IF q < 0 THEN -1 ELSE 1
         IN <<sgn * (p \div g), sgn * (q \div g)>>

Num(i) == <<i, 1>>
RAdd(x, y) == IF IsNaN(x) \/ IsNaN(y) THEN NaN
              ELSE Frac(x[1] * y[2] + y[1] * x[2], x[2] * y[2])
RSub(x, y) == IF IsNaN(x) \/ IsNaN(y) THEN NaN
              ELSE Frac(x[1] * y[2] - y[1] * x[2], x[2] * y[2])
RMul(x, y) == IF IsNaN(x) \/ IsNaN(y) THEN NaN
              ELSE Frac(x[1] * y[1], x[2] * y[2])
\* 0/0 is NaN; no other division by zero arises, every other divisor being a
\* positive count
RDiv(x, y) == IF IsNaN(x) \/ IsNaN(y) \/ y[1] = 0 THEN NaN
              ELSE Frac(x[1] * y[2], x[2] * y[1])
RLess(x, y) == x[1] * y[2] < y[1] * x[2]

\* the largest batch, and the values a sample takes
MaxBatch == 2
SampleValues == {0, 1}

\* the constructor's epsilon: 1e-4 by default; a larger positive value keeps
\* the exact fractions small
RmsEpsilon == <<1, 4>>

RECURSIVE SeqSum(_)
SeqSum(x) == IF x = <<>> THEN Num(0) ELSE RAdd(Num(Head(x)), SeqSum(Tail(x)))

\* torch.mean(x, dim=0): the sum over the number of samples (0/0 when empty)
BatchMean(x) == RDiv(SeqSum(x), Num(Len(x)))

RECURSIVE SumSquares(_, _)
SumSquares(x, m) ==
    IF x = <<>> THEN Num(0)
    ELSE RAdd(RMul(RSub(Num(Head(x)), m), RSub(Num(Head(x)), m)),
              SumSquares(Tail(x), m))

\* torch.var(x, dim=0): the unbiased estimate, dividing by n - 1
BatchVar(x) ==
    RDiv(SumSquares(x, BatchMean(x)), Num(Len(x) - 1))

\* a slip: the count replaced by the batch's
TotCountBatchOnly(count, batch_count) == Num(batch_count)

\* tot_count = count + batch_count
TotCount(count, batch_count) == RAdd(count, Num(batch_count))

\* update_mean_var_count_from_moments
UpdateMeanVarCountFromMoments(mean, var, count, batch_mean, batch_var, batch_count) ==
    LET delta == RSub(batch_mean, mean)
        tot_count == TotCount(count, batch_count)
        new_mean == RAdd(mean, RDiv(RMul(delta, Num(batch_count)), tot_count))
        m_a == RMul(var, count)
        m_b == RMul(batch_var, Num(batch_count))
        M2 == RAdd(RAdd(m_a, m_b),
                   RDiv(RMul(RMul(RMul(delta, delta), count), Num(batch_count)),
                        tot_count))
    IN [mean |-> new_mean, var |-> RDiv(M2, tot_count), count |-> tot_count]

\* RunningMeanStd.update
Update(st, x) ==
    UpdateMeanVarCountFromMoments(st.mean, st.var, st.count,
                                  BatchMean(x), BatchVar(x), Len(x))

\* RunningMeanStd.__init__
NewRunningMeanStd == [mean |-> Num(0), var |-> Num(1), count |-> RmsEpsilon]

Batches == UNION { [1..k -> SampleValues] : k \in 0..MaxBatch }

\* the ways the batches A, B, C are handed to update: [A,B] then C; A then
\* [B,C]; C, B, A one by one
Groupings == {"AB_C", "A_BC", "C_B_A"}
Plan(g) ==
    CASE g = "AB_C" -> <<batches[1] \o batches[2], batches[3]>>
      [] g = "A_BC" -> <<batches[1], batches[2] \o batches[3]>>
      [] g = "C_B_A" -> <<batches[3], batches[2], batches[1]>>

RmsIdle ==
    /\ batches = None /\ rms = None /\ rms_done = None /\ rms_before = None

RmsStart ==
    /\ batches \in Batches \X Batches \X Batches
    /\ rms = [g \in Groupings |-> NewRunningMeanStd]
    /\ rms_done = [g \in Groupings |-> 0]
    /\ rms_before = [g \in Groupings |-> NewRunningMeanStd]

\* one call of update on the statistic of one grouping
RmsUpdate ==
    /\ \E g \in Groupings :
          /\ rms_done[g] < Len(Plan(g))
          /\ rms' = [rms EXCEPT ![g] = Update(rms[g], Plan(g)[rms_done[g] + 1])]
          /\ rms_before' = [rms_before EXCEPT ![g] = rms[g]]
          /\ rms_done' = [rms_done EXCEPT ![g] = @ + 1]
    /\ UNCHANGED batches
    /\ UNCHANGED otherThanRms

RmsNext == RmsUpdate

(***************************************************************************)
(* The latent vectors of the RLE rollout                                   *)
(***************************************************************************)
LatEnvs == 2
LatSteps == 4
LEnvs == 0..(LatEnvs - 1)

\* ppo_rle.py 427
z_reset_frequency == 1280

\* Steps the run has already taken when it is looked at, none of which ended
\* an episode: none, or just short of the budget.
LatAges == {0, z_reset_frequency - 2, z_reset_frequency - 1}

LatIdle ==
    /\ z_latent = None /\ steps_since_z_reset = None /\ z_samples = 0
    /\ z_steps = 0 /\ z_done = None /\ z_before = None /\ z_assigned = None
    /\ z_used = None /\ z_at = None /\ b_latents = None

\* latent_vectors = sample_z(num_envs), steps_since_z_reset = zeros, and then
\* a number of steps in which no episode ended
LatStart ==
    /\ z_latent = [n \in LEnvs |-> n]
    /\ z_samples = LatEnvs
    /\ \E age \in LatAges :
          /\ steps_since_z_reset = [n \in LEnvs |-> age]
          /\ z_used = [n \in LEnvs |-> age]
    /\ z_steps = 0
    /\ z_done = [n \in LEnvs |-> FALSE]
    /\ z_before = [latent |-> z_latent, steps |-> steps_since_z_reset]
    /\ z_assigned = [n \in LEnvs |-> 0]
    /\ z_at = <<>>
    /\ b_latents = None

\* a slip: the budget exceeded by one step before the reset
ResetZLate(steps, ended) ==
    [n \in LEnvs |-> (steps[n] > z_reset_frequency) \/ ended[n]]

\* reset_z = (steps_since_z_reset >= z_reset_frequency) | next_done
ResetZ(steps, ended) ==
    [n \in LEnvs |-> (steps[n] >= z_reset_frequency) \/ ended[n]]

\* the row of new_z that the masked assignment gives environment n: the
\* number of environments before n that are reset too
RowOf(reset_z, n) == Cardinality({m \in LEnvs : m < n /\ reset_z[m]})

\* one rollout step, as far as the latents go: the action is chosen with the
\* current latents, the environments step (next_done = terminations or
\* truncations), then ppo_rle.py 481-487
LatStep ==
    /\ z_steps < LatSteps
    /\ \E ended \in [LEnvs -> BOOLEAN] :
        LET counted == [n \in LEnvs |-> steps_since_z_reset[n] + 1]
            reset_z == ResetZ(counted, ended)
            any == \E n \in LEnvs : reset_z[n]
            drawn == Cardinality({n \in LEnvs : reset_z[n]})
        IN /\ z_done' = ended
           /\ z_before' = [latent |-> z_latent, steps |-> steps_since_z_reset]
           /\ z_used' = [n \in LEnvs |->
                           IF z_assigned[n] > 0 THEN 1 ELSE z_used[n] + 1]
           /\ z_latent' = [n \in LEnvs |->
                             IF any /\ reset_z[n] THEN z_samples + RowOf(reset_z, n)
                             ELSE z_latent[n]]
           /\ steps_since_z_reset' = [n \in LEnvs |->
                             IF any /\ reset_z[n] THEN 0 ELSE counted[n]]
           /\ z_assigned' = [n \in LEnvs |-> IF any /\ reset_z[n] THEN 1 ELSE 0]
           /\ z_samples' = IF any THEN z_samples + drawn ELSE z_samples
    /\ z_steps' = z_steps + 1
    /\ z_at' = Append(z_at, z_latent)
    /\ UNCHANGED b_latents
    /\ UNCHANGED otherThanLatent

\* latent_vectors.repeat_interleave(num_steps, dim=0)
InterleavedLatents(vec, times) == [k \in 0..(times * LatEnvs - 1) |-> vec[k \div times]]

\* the rollout of num_steps = LatSteps steps is over:
\* b_latents = latent_vectors.repeat_interleave(args.num_steps, dim=0)
LatFlatten ==
    /\ z_steps = LatSteps
    /\ b_latents = None
    /\ b_latents' = InterleavedLatents(z_latent, LatSteps)
    /\ UNCHANGED <<z_latent, steps_since_z_reset, z_samples, z_steps, z_done,
                   z_before, z_assigned, z_used, z_at>>
    /\ UNCHANGED otherThanLatent

LatNext == LatStep \/ LatFlatten

(***************************************************************************)
(* The clipped policy loss                                                 *)
(***************************************************************************)
\* the largest minibatch
MaxSamples == 2

\* args.clip_coef (default 0.2)
ClipCoef == <<1, 5>>

\* the ratios and advantages a sample takes: below, at the edges of, inside
\* and above the band [1 - clip_coef, 1 + clip_coef]
Ratios == {<<1, 2>>, <<4, 5>>, <<1, 1>>, <<6, 5>>, <<7, 5>>, <<2, 1>>}
Advantages == {Num(-1), Num(0), Num(2)}

RMax(x, y) == IF RLess(x, y) THEN y ELSE x
RMin(x, y) == IF RLess(x, y) THEN x ELSE y
RNeg(x) == RSub(Num(0), x)

\* torch.clamp(x, lo, hi)
Clamp(x, lo, hi) == RMin(RMax(x, lo), hi)

\* a slip: the smaller of the two terms
SurrogateMin(adv, rat) ==
    RMin(RMul(RNeg(adv), rat),
         RMul(RNeg(adv), Clamp(rat, RSub(Num(1), ClipCoef), RAdd(Num(1), ClipCoef))))

\* torch.max(pg_loss1, pg_loss2) of one sample, with
\* pg_loss1 = -mb_advantages * ratio
\* pg_loss2 = -mb_advantages * torch.clamp(ratio, 1 - clip_coef, 1 + clip_coef)
Surrogate(adv, rat) ==
    RMax(RMul(RNeg(adv), rat),
         RMul(RNeg(adv), Clamp(rat, RSub(Num(1), ClipCoef), RAdd(Num(1), ClipCoef))))

RECURSIVE RSum(_)
RSum(xs) == IF xs = <<>> THEN Num(0) ELSE RAdd(Head(xs), RSum(Tail(xs)))

\* (...).mean()
Mean(xs) == RDiv(RSum(xs), Num(Len(xs)))

LossIdle == ratio = None /\ mb_advantages = None /\ pg_loss = None

\* a minibatch with its ratios and advantages, the loss not yet computed
LossStart ==
    /\ \E m \in 1..MaxSamples :
          /\ ratio \in [1..m -> Ratios]
          /\ mb_advantages \in [1..m -> Advantages]
    /\ pg_loss = None

\* pg_loss = torch.max(pg_loss1, pg_loss2).mean()
PolicyLoss ==
    /\ pg_loss = None
    /\ pg_loss' = Mean([i \in 1..Len(ratio) |-> Surrogate(mb_advantages[i], ratio[i])])
    /\ UNCHANGED <<ratio, mb_advantages>>
    /\ UNCHANGED otherThanLoss

LossNext == PolicyLoss

(***************************************************************************)
(* Reward normalization in the RND loop                                    *)
(***************************************************************************)
\* args.num_steps, and the number of iterations followed
NormSteps == 2
NormIterations == 2

Streams == {"ext", "int"}

NormZeroRow == [n \in Slots |-> 0]

\* what a step of the rollout is followed for: no reward, a reward in every
\* environment, a reward in the first only; no episode end, an episode end
\* in the first environment
NormRewardRows ==
    {NormZeroRow, [n \in Slots |-> FScale], [n \in Slots |-> IF n = 1 THEN FScale ELSE 0]}
NormDoneRows == {NormZeroRow, [n \in Slots |-> IF n = 1 THEN 1 ELSE 0]}

\* a slip: the last row only
NormFlattenLastRow(rows) ==
    IF rows = <<>> THEN <<>> ELSE [n \in 1..NumSlots |-> rows[Len(rows)][n]]

\* .flatten() of the stacked rows: row after row
RECURSIVE NormFlatten(_)
NormFlatten(rows) ==
    IF rows = <<>> THEN <<>>
    ELSE [n \in 1..NumSlots |-> Head(rows)[n]] \o NormFlatten(Tail(rows))

NormIdle ==
    /\ nstream = None /\ npc = "idle" /\ nupdate = 0 /\ nstep = 0
    /\ norm_rewards = None /\ norm_dones = None /\ norm_next_done = None
    /\ norm_rewems = None /\ reward_per_env = None /\ stat_updates = 0
    /\ stat_batch = None /\ divisor = None /\ norm_raw = None /\ norm_log = None

\* the buffers are allocated once, before the loop; the filter and the
\* statistic are new
NormStart ==
    /\ nstream \in Streams
    /\ npc = "rollout" /\ nupdate = 1 /\ nstep = 0
    /\ norm_rewards = [t \in 1..NormSteps |-> NormZeroRow]
    /\ norm_dones = [t \in 1..NormSteps |-> NormZeroRow]
    /\ norm_next_done = NormZeroRow
    /\ norm_rewems = None
    /\ reward_per_env = <<>>
    /\ stat_updates = 0
    /\ stat_batch = <<>>
    /\ divisor = None
    /\ norm_raw = [t \in 1..NormSteps |-> NormZeroRow]
    /\ norm_log = <<>>

\* one step of the rollout: dones[step] = next_done, the environments step,
\* rewards[step] = next_rewards (curiosity_rewards[step] = ... for "int");
\* the row is written in place
NormRolloutStep ==
    /\ npc = "rollout"
    /\ nstep < NormSteps
    /\ \E r \in NormRewardRows, d \in NormDoneRows :
          /\ norm_dones' = [norm_dones EXCEPT ![nstep + 1] = norm_next_done]
          /\ norm_next_done' = d
          /\ norm_rewards' = [norm_rewards EXCEPT ![nstep + 1] = r]
          /\ norm_raw' = [norm_raw EXCEPT ![nstep + 1] = r]
    /\ nstep' = IF nstep + 1 = NormSteps THEN 0 ELSE nstep + 1
    /\ npc' = IF nstep + 1 = NormSteps THEN "filter" ELSE "rollout"
    /\ UNCHANGED <<nstream, nupdate, norm_rewems, reward_per_env, stat_updates,
                   stat_batch, divisor, norm_log>>
    /\ UNCHANGED otherThanNorm

\* discounted_reward.update(rewards[i], not_dones[i]) with not_dones = 1.0 - dones.
\* rewards[i] is a view of row i of the buffer.  The first call binds
\* self.rewems to that view; later calls write self.rewems[mask] in place,
\* that is, into the row of the buffer self.rewems is a view of.  The value
\* returned is a deepcopy.
NormFilterRow ==
    /\ npc = "filter"
    /\ nstep < NormSteps
    /\ LET rews == norm_rewards[nstep + 1]
           not_done == [n \in Slots |-> 1 - norm_dones[nstep + 1][n]]
       IN  IF norm_rewems = None
           THEN /\ norm_rewems' = <<nstep>>
                /\ norm_rewards' = norm_rewards
                /\ reward_per_env' = Append(reward_per_env, rews)
           ELSE LET row == norm_rewems[1] + 1
                    acc == MaskedUpdate(norm_rewards[row], rews, not_done)
                IN  /\ norm_rewems' = norm_rewems
                    /\ norm_rewards' = [norm_rewards EXCEPT ![row] = acc]
                    /\ reward_per_env' = Append(reward_per_env, acc)
    /\ norm_log' = Append(norm_log, <<"filter", nstep>>)
    /\ nstep' = IF nstep + 1 = NormSteps THEN 0 ELSE nstep + 1
    /\ npc' = IF nstep + 1 = NormSteps THEN "update" ELSE "filter"
    /\ UNCHANGED <<nstream, nupdate, norm_dones, norm_next_done, stat_updates,
                   stat_batch, divisor, norm_raw>>
    /\ UNCHANGED otherThanNorm

\* reward_rms.update(reward_per_env.flatten())
NormStatUpdate ==
    /\ npc = "update"
    /\ stat_batch' = NormFlatten(reward_per_env)
    /\ stat_updates' = stat_updates + 1
    /\ norm_log' = Append(norm_log, <<"update", stat_updates + 1>>)
    /\ npc' = "divide"
    /\ UNCHANGED <<nstream, nupdate, nstep, norm_rewards, norm_dones, norm_next_done,
                   norm_rewems, reward_per_env, divisor, norm_raw>>
    /\ UNCHANGED otherThanNorm

\* rewards /= torch.sqrt(reward_rms.var): in place, every row of the buffer
\* by the same scalar; norm_rewards keeps the numerators
NormDivide ==
    /\ npc = "divide"
    /\ divisor' = <<stat_updates>>
    /\ norm_log' = Append(norm_log, <<"divide", stat_updates>>)
    /\ npc' = "advantages"
    /\ UNCHANGED <<nstream, nupdate, nstep, norm_rewards, norm_dones, norm_next_done,
                   norm_rewems, reward_per_env, stat_updates, stat_batch, norm_raw>>
    /\ UNCHANGED otherThanNorm

\* advantage estimation reads the buffer; then the next iteration starts
NormAdvantages ==
    /\ npc = "advantages"
    /\ IF nupdate < NormIterations
       THEN /\ nupdate' = nupdate + 1
            /\ npc' = "rollout"
            /\ reward_per_env' = <<>>
            /\ divisor' = None
            /\ norm_log' = <<>>
       ELSE /\ npc' = "done"
            /\ UNCHANGED <<nupdate, reward_per_env, divisor, norm_log>>
    /\ UNCHANGED <<nstream, nstep, norm_rewards, norm_dones, norm_next_done,
                   norm_rewems, stat_updates, stat_batch, norm_raw>>
    /\ UNCHANGED otherThanNorm

NormNext ==
    \/ NormRolloutStep
    \/ NormFilterRow
    \/ NormStatUpdate
    \/ NormDivide
    \/ NormAdvantages

(***************************************************************************)
(* The networks' parameters and the optimizer                              *)
(***************************************************************************)
\* how many optimizer steps are followed
MaxOptimizerSteps == 2

\* the agent, and the two networks of RNDModel
Networks == {"agent", "predictor", "target"}

\* for param in self.target.parameters(): param.requires_grad = False
requires_grad(p) == p # "target"

\* combined_parameters = list(agent.parameters()) + list(rnd_model.predictor.parameters())
combined_parameters == {"agent", "predictor"}

InitialValues == {0, 1}
Gradients == {-1, 0, 1}
Moves == {-1, 0, 1}

\* optimizer.zero_grad(), then loss.backward(): a network gets a gradient if
\* its parameters require one; the loss reaches the agent through pg_loss,
\* entropy_loss and v_loss, the predictor through forward_loss, and the
\* target's output is detached
Backward(g) == [p \in Networks |-> IF requires_grad(p) THEN <<g[p]>> ELSE None]

\* a slip: the optimizer steps every network
SteppedAll(gr) == Networks

\* optimizer.step(): Adam walks over the parameters it was constructed with
\* and skips those whose .grad is None
Stepped(gr) == {p \in combined_parameters : gr[p] # None}

ParamIdle ==
    /\ params = None /\ params0 = None /\ grad = None /\ parpc = "idle"
    /\ optimizer_steps = 0

\* after construction: random initial values, no gradient yet
ParamStart ==
    /\ params \in [Networks -> InitialValues]
    /\ params0 = params
    /\ grad = [p \in Networks |-> None]
    /\ parpc = "rollout"
    /\ optimizer_steps = 0

\* the rollout: the agent, the target and the predictor are evaluated
\* (rnd_model.target(rnd_next_obs), rnd_model.predictor(rnd_next_obs));
\* nothing is assigned to a parameter
ParamRollout ==
    /\ parpc = "rollout"
    /\ optimizer_steps < MaxOptimizerSteps
    /\ parpc' = "optimize"
    /\ UNCHANGED <<params, params0, grad, optimizer_steps>>
    /\ UNCHANGED otherThanParam

\* one minibatch: zero_grad, backward, clip_grad_norm_, optimizer.step()
ParamMinibatchStep ==
    /\ parpc = "optimize"
    /\ optimizer_steps < MaxOptimizerSteps
    /\ \E g \in [Networks -> Gradients], d \in [Networks -> Moves] :
          /\ grad' = Backward(g)
          /\ params' = [p \in Networks |->
                           IF p \in Stepped(Backward(g)) THEN params[p] + d[p]
                           ELSE params[p]]
    /\ optimizer_steps' = optimizer_steps + 1
    /\ UNCHANGED <<params0, parpc>>
    /\ UNCHANGED otherThanParam

\* the epochs of the iteration are over
ParamEpochsEnd ==
    /\ parpc = "optimize"
    /\ optimizer_steps > 0
    /\ parpc' = "rollout"
    /\ UNCHANGED <<params, params0, grad, optimizer_steps>>
    /\ UNCHANGED otherThanParam

ParamNext == ParamRollout \/ ParamMinibatchStep \/ ParamEpochsEnd

(***************************************************************************)
(* FourRoomGridWorld                                                       *)
(***************************************************************************)
\* assert size >= 10: the smallest world, FourRoomGridWorld(size=MinSize)
MinSize == 10
\* the holes are HoleOffset cells away from the middle
HoleOffset == 5

\* self.size = size + 1
self_size == MinSize + 1
x_wall_position == MinSize \div 2
y_wall_position == MinSize \div 2
hole_1_position == <<x_wall_position, MinSize \div 2 - HoleOffset>>
hole_2_position == <<x_wall_position, MinSize \div 2 + HoleOffset>>
hole_3_position == <<MinSize \div 2 - HoleOffset, y_wall_position>>
hole_4_position == <<MinSize \div 2 + HoleOffset, y_wall_position>>

\* the keys of self._action_to_direction
DirectionKeys == 0..3

\* what a caller passes to step: the four actions, and values outside
\* Discrete(4)
StepArguments == -1..5

\* a slip: every action has a direction
RaisesNever(act) == FALSE

\* self._action_to_direction[act] raises KeyError for a missing key
RaisesKeyError(act) == act \notin DirectionKeys

\* self._action_to_direction[act] for a key; the value nearest to a key stands
\* for a value that is none
DirectionOf(act) == ActionToDirection(Clip(act, 0, 3))

\* a slip: off the wall row or off the wall column
PositionOffOneWall(pos) ==
    \/ (pos[1] # x_wall_position \/ pos[2] # y_wall_position)
    \/ pos \in {hole_1_position, hole_2_position, hole_3_position, hole_4_position}

\* _position_is_not_in_wall
PositionIsNotInWall(pos) ==
    \/ (pos[1] # x_wall_position /\ pos[2] # y_wall_position)
    \/ pos \in {hole_1_position, hole_2_position, hole_3_position, hole_4_position}

\* np.clip(v, 0, self.size - 1)
ClipToGrid(v) == <<Clip(v[1], 0, self_size - 1), Clip(v[2], 0, self_size - 1)>>

OutOfGrid(v) ==
    v[1] < 0 \/ v[1] > self_size - 1 \/ v[2] < 0 \/ v[2] > self_size - 1

\* the pairs self.np_random.integers(0, self.size, size=2) is followed for:
\* corners, a hole, the middle of the walls, a wall cell, a room cell
ResetDraws ==
    {<<0, 0>>, <<self_size - 1, self_size - 1>>, hole_1_position,
     <<x_wall_position, y_wall_position>>, <<x_wall_position - 1, y_wall_position>>,
     <<self_size - 2, 3>>}

\* reset: the agent's location is the first draw off the wall, the target's
\* the first later draw off the wall and different from the agent's
ResetTo(agent, target) ==
    /\ agent \in ResetDraws /\ PositionIsNotInWall(agent)
    /\ target \in ResetDraws /\ PositionIsNotInWall(target) /\ target # agent

Locations == <<env_agent_location, env_target_location, env_start_location>>

EnvIdle ==
    /\ env_agent_location = None /\ env_target_location = None
    /\ env_start_location = None /\ env_call = "none" /\ env_action = -1
    /\ env_raised = "none" /\ env_reward = 0 /\ env_terminated = FALSE
    /\ env_before = None

\* the environment after its first reset
EnvStart ==
    /\ ResetTo(env_agent_location, env_target_location)
    /\ env_start_location = env_agent_location
    /\ env_call = "reset" /\ env_action = -1 /\ env_raised = "none"
    /\ env_reward = 0 /\ env_terminated = FALSE
    /\ env_before = None

\* reset
EnvReset ==
    /\ env_call # "none"
    /\ \E agent \in ResetDraws, target \in ResetDraws :
          /\ ResetTo(agent, target)
          /\ env_agent_location' = agent
          /\ env_target_location' = target
          /\ env_start_location' = agent
    /\ env_call' = "reset" /\ env_action' = -1 /\ env_raised' = "none"
    /\ env_reward' = 0 /\ env_terminated' = FALSE
    /\ env_before' = Locations
    /\ UNCHANGED otherThanEnv

\* step(act)
EnvStepCall ==
    /\ env_call # "none"
    /\ \E act \in StepArguments :
          /\ env_action' = act
          /\ env_call' = "step"
          /\ env_before' = Locations
          /\ IF RaisesKeyError(act)
             THEN \* direction = self._action_to_direction[act] raises
                  /\ env_raised' = "KeyError"
                  /\ UNCHANGED <<env_agent_location, env_target_location,
                                 env_start_location, env_reward, env_terminated>>
             ELSE LET direction == DirectionOf(act)
                      new_position ==
                          ClipToGrid(<<env_agent_location[1] + direction[1],
                                       env_agent_location[2] + direction[2]>>)
                      location == IF PositionIsNotInWall(new_position)
                                  THEN new_position ELSE env_agent_location
                      terminated == location = env_target_location
                      \* new_position = self._agent_location + direction, after
                      \* the agent's location was assigned
                      next_position == <<location[1] + direction[1],
                                         location[2] + direction[2]>>
                  IN  /\ env_raised' = "none"
                      /\ env_agent_location' = location
                      /\ env_terminated' = terminated
                      /\ env_reward' =
                            IF terminated THEN 1
                            ELSE IF OutOfGrid(next_position) THEN -1
                            ELSE IF ~PositionIsNotInWall(new_position) THEN -1
                            ELSE 0
                      /\ UNCHANGED <<env_target_location, env_start_location>>
    /\ UNCHANGED otherThanEnv

EnvNext == EnvReset \/ EnvStepCall

(***************************************************************************)
(* The RLE feature network and its blend with the actor                    *)
(***************************************************************************)
\* how many iterations (one blend each) are followed, and the size of an
\* observation
MaxBlendCalls == 2
StateDims == 2

\* RLE_FEATURE_SIZE, the width of the hidden layers, FeatureNetwork's tau
RLE_FEATURE_SIZE == 4
HiddenWidth == 64
Tau == <<1, 200>>
ActionCount == 4

\* the nn.Linear layers of FeatureNetwork, in order, with (out, in)
SharedLinear == <<"shared_layers.0", "shared_layers.2">>
FeatLayers == {"shared_layers.0", "shared_layers.2", "feature_layer"}
FeatOutIn(layer) ==
    CASE layer = "shared_layers.0" -> <<HiddenWidth, StateDims>>
      [] layer = "shared_layers.2" -> <<HiddenWidth, HiddenWidth>>
      [] layer = "feature_layer" -> <<RLE_FEATURE_SIZE, HiddenWidth>>

\* the nn.Linear layers of agent.actor, in order, with (out, in)
ActorLinear == <<"actor.0", "actor.2", "actor.4">>
ActorOutIn(layer) ==
    CASE layer = "actor.0" -> <<HiddenWidth, StateDims + RLE_FEATURE_SIZE>>
      [] layer = "actor.2" -> <<HiddenWidth, HiddenWidth>>
      [] layer = "actor.4" -> <<ActionCount, HiddenWidth>>

\* the shape of a layer's weight (out, in) and of its bias (out)
ParamShape(out_in, kind) == IF kind = "weight" THEN out_in ELSE <<out_in[1]>>

FeatParams == FeatLayers \X {"weight", "bias"}
ActorParams == {"actor.0", "actor.2", "actor.4"} \X {"weight", "bias"}

\* tau * policy_param + (1 - tau) * feat_param
Blended(feat_param, policy_param) ==
    RAdd(RMul(Tau, policy_param), RMul(RSub(Num(1), Tau), feat_param))

\* update_from_policy_net(policy_net): the Linear layers of shared_layers are
\* zipped with the first as many Linear layers of policy_net, the parameters
\* of each pair are zipped (weight with weight, bias with bias), and a
\* parameter is blended when the two shapes are equal
UpdateFromPolicyNet(feat, policy) ==
    [fp \in FeatParams |->
        IF \E i \in 1..Len(SharedLinear) :
              /\ fp[1] = SharedLinear[i]
              /\ ParamShape(FeatOutIn(SharedLinear[i]), fp[2])
                    = ParamShape(ActorOutIn(ActorLinear[i]), fp[2])
        THEN LET i == CHOOSE i \in 1..Len(SharedLinear) : fp[1] = SharedLinear[i]
             IN  Blended(feat[fp], policy[<<ActorLinear[i], fp[2]>>])
        ELSE feat[fp]]

\* the values an optimizer step leaves in a parameter of the actor
ActorValues == {Num(-1), Num(0), Num(1)}

NetIdle ==
    /\ feat_params = None /\ policy_params = None /\ blend_calls = 0
    /\ netpc = "idle" /\ nets_before = None

\* after construction: layer_init sets every bias to 0; the weights of the
\* two networks are random and differ
NetStart ==
    /\ feat_params = [fp \in FeatParams |-> Num(0)]
    /\ policy_params = [pp \in ActorParams |-> IF pp[2] = "bias" THEN Num(0) ELSE Num(1)]
    /\ blend_calls = 0
    /\ netpc = "blend"
    /\ nets_before = None

\* feature_network.update_from_policy_net(agent.actor), once per iteration
\* after the rollout
NetBlend ==
    /\ netpc = "blend"
    /\ blend_calls < MaxBlendCalls
    /\ nets_before' = [feat |-> feat_params, policy |-> policy_params]
    /\ feat_params' = UpdateFromPolicyNet(feat_params, policy_params)
    /\ blend_calls' = blend_calls + 1
    /\ netpc' = "optimize"
    /\ UNCHANGED policy_params
    /\ UNCHANGED otherThanNet

\* the optimization phase of the iteration: the optimizer holds
\* agent.parameters() and changes them; the feature network is not touched
NetOptimize ==
    /\ netpc = "optimize"
    /\ blend_calls < MaxBlendCalls
    /\ policy_params' \in [ActorParams -> ActorValues]
    /\ netpc' = "blend"
    /\ UNCHANGED <<feat_params, blend_calls, nets_before>>
    /\ UNCHANGED otherThanNet

NetNext == NetBlend \/ NetOptimize

(***************************************************************************)
(* The specifications: one component runs, the others stay idle            *)
(***************************************************************************)
FilterInit == FilterIdle /\ FlatIdle /\ GaeIdle /\ TrainIdle /\ SeedIdle /\ RmsIdle /\ LatIdle /\ LossIdle /\ NormIdle /\ ParamIdle /\ EnvIdle /\ NetIdle
FlatInit == FlatStart /\ FilterIdle /\ GaeIdle /\ TrainIdle /\ SeedIdle /\ RmsIdle /\ LatIdle /\ LossIdle /\ NormIdle /\ ParamIdle /\ EnvIdle /\ NetIdle
GaeInit == GaeStart /\ FilterIdle /\ FlatIdle /\ TrainIdle /\ SeedIdle /\ RmsIdle /\ LatIdle /\ LossIdle /\ NormIdle /\ ParamIdle /\ EnvIdle /\ NetIdle
TrainInit == TrainStart /\ FilterIdle /\ FlatIdle /\ GaeIdle /\ SeedIdle /\ RmsIdle /\ LatIdle /\ LossIdle /\ NormIdle /\ ParamIdle /\ EnvIdle /\ NetIdle
SeedInit == SeedStart /\ FilterIdle /\ FlatIdle /\ GaeIdle /\ TrainIdle /\ RmsIdle /\ LatIdle /\ LossIdle /\ NormIdle /\ ParamIdle /\ EnvIdle /\ NetIdle
RmsInit == RmsStart /\ FilterIdle /\ FlatIdle /\ GaeIdle /\ TrainIdle /\ SeedIdle /\ LatIdle /\ LossIdle /\ NormIdle /\ ParamIdle /\ EnvIdle /\ NetIdle
LatInit == LatStart /\ FilterIdle /\ FlatIdle /\ GaeIdle /\ TrainIdle /\ SeedIdle /\ RmsIdle /\ LossIdle /\ NormIdle /\ ParamIdle /\ EnvIdle /\ NetIdle
LossInit == LossStart /\ FilterIdle /\ FlatIdle /\ GaeIdle /\ TrainIdle /\ SeedIdle /\ RmsIdle /\ LatIdle /\ NormIdle /\ ParamIdle /\ EnvIdle /\ NetIdle
NormInit == NormStart /\ FilterIdle /\ FlatIdle /\ GaeIdle /\ TrainIdle /\ SeedIdle /\ RmsIdle /\ LatIdle /\ LossIdle /\ ParamIdle /\ EnvIdle /\ NetIdle
ParamInit == ParamStart /\ FilterIdle /\ FlatIdle /\ GaeIdle /\ TrainIdle /\ SeedIdle /\ RmsIdle /\ LatIdle /\ LossIdle /\ NormIdle /\ EnvIdle /\ NetIdle
EnvInit == EnvStart /\ FilterIdle /\ FlatIdle /\ GaeIdle /\ TrainIdle /\ SeedIdle /\ RmsIdle /\ LatIdle /\ LossIdle /\ NormIdle /\ ParamIdle /\ NetIdle
NetInit == NetStart /\ FilterIdle /\ FlatIdle /\ GaeIdle /\ TrainIdle /\ SeedIdle /\ RmsIdle /\ LatIdle /\ LossIdle /\ NormIdle /\ ParamIdle /\ EnvIdle

SpecFilter == FilterInit /\ [][FilterNext]_vars

SpecFlat == FlatInit /\ [][FlatNext]_vars

SpecGae == GaeInit /\ [][GaeNext]_vars

SpecTrain == TrainInit /\ [][TrainNext]_vars

SpecSeed == SeedInit /\ [][SeedNext]_vars

SpecRms == RmsInit /\ [][RmsNext]_vars

SpecLatent == LatInit /\ [][LatNext]_vars

SpecLoss == LossInit /\ [][LossNext]_vars

SpecNorm == NormInit /\ [][NormNext]_vars

SpecParam == ParamInit /\ [][ParamNext]_vars

SpecEnv == EnvInit /\ [][EnvNext]_vars

SpecNet == NetInit /\ [][NetNext]_vars

\* C1: after update(rewards, not_done) every slot whose not_done is false holds
\* the raw reward of the call, and every other slot holds accumulator*gamma +
\* reward (the reward itself on the first call).
C1_ResetOnDone ==
    (fcalls > 0 /\ fnotdone # None) =>
        \A n \in Slots :
            fret[n] = IF fnotdone[n] = 0 \/ fprev = None
                      THEN frews[n]
                      ELSE Decay(fprev[n]) + frews[n]

\* C2: once the batch is flattened, flat index k = t*N + n of every field holds
\* what the rollout buffer of that field holds for transition (t, n), and the
\* latent at k is the latent of environment n.
C2_SameIndexMapping ==
    batch # None =>
        \A t \in FlSteps, n \in FlEnvs :
            /\ \A f \in FieldsOf(flscript) :
                   batch[f][t * FlatEnvs + n] = rollout[f][t][n]
            /\ flscript = "rle" =>
                   batch["latents"][t * FlatEnvs + n] = latent_vectors[n]

\* ---- the estimator as the specification states it
\* done_t and V(s_t) for t in 0..T, where step T is the step after the last
RefDone(t, n) == IF t = GaeSteps THEN next_done[n] ELSE dones[t][n]
RefValue(t, n) == IF t = GaeSteps THEN next_value_ext[n] ELSE ext_values[t][n]
RefIntValue(t, n) == IF t = GaeSteps THEN next_value_int[n] ELSE int_values[t][n]

\* A_t = delta_t + gamma*lambda*(1-done_{t+1})*A_{t+1}, A_T = 0, with
\* delta_t = r_t + gamma*V(s_{t+1})*(1-done_{t+1}) - V(s_t)
RECURSIVE RefAdv(_, _)
RefAdv(t, n) ==
    IF t = GaeSteps THEN 0
    ELSE rewards[t][n] + gamma * RefValue(t + 1, n) * (1 - RefDone(t + 1, n))
         - RefValue(t, n)
         + gamma * gae_lambda * (1 - RefDone(t + 1, n)) * RefAdv(t + 1, n)

\* the same recursion with the non-terminal mask always 1 and int_gamma: a
\* function of curiosity_rewards, int_values and next_value_int alone
RECURSIVE RefIntAdv(_, _)
RefIntAdv(t, n) ==
    IF t = GaeSteps THEN 0
    ELSE curiosity_rewards[t][n] + int_gamma * RefIntValue(t + 1, n)
         - RefIntValue(t, n)
         + int_gamma * gae_lambda * RefIntAdv(t + 1, n)

\* C8: the estimator fills the advantages from t = T-1 down to 0 (the rows it
\* has not reached are still zero), every row it has filled holds
\* A_t = delta_t + gamma*lambda*(1-done_{t+1})*A_{t+1} with next_done and the
\* bootstrap value at t = T-1 and dones[t+1], values[t+1] below, and the
\* returns are advantage + value.
C8_GaeRecursion ==
    \A t \in GSteps, n \in GEnvs :
        /\ ext_advantages[t][n] = IF t > gt THEN RefAdv(t, n) ELSE 0
        /\ ext_returns # None =>
               /\ gt < 0
               /\ ext_returns[t][n] = RefAdv(t, n) + ext_values[t][n]

\* C8 witness: the RLE estimator has finished on a rollout whose episode ended
\* inside the rollout (dones[T-1]) but not at its end (next_done), gamma > 0.
C8_Witness ==
    /\ gscript = "rle" /\ ext_returns # None /\ gamma = 2
    /\ \E n \in GEnvs :
         /\ dones[GaeSteps - 1][n] = 1 /\ next_done[n] = 0
         /\ ext_advantages[0][n] # ext_advantages[GaeSteps - 1][n]

\* C9: the intrinsic advantages and returns of the RND estimator are the
\* done-free recursion: a function of curiosity_rewards, int_values,
\* next_value_int, int_gamma and lambda only.  Every combination of done flags
\* is explored with the same other inputs, so two rollouts that differ only in
\* dones or next_done get the same intrinsic advantages and returns.
C9_IntrinsicIgnoresDones ==
    gscript = "rnd" =>
        \A t \in GSteps, n \in GEnvs :
            /\ int_advantages[t][n] = IF t > gt THEN RefIntAdv(t, n) ELSE 0
            /\ int_returns # None =>
                   int_returns[t][n] = RefIntAdv(t, n) + int_values[t][n]

\* C9 witness: the RND estimator has finished on a rollout with done flags set
\* where the mask changed the extrinsic advantage.
C9_Witness ==
    /\ gscript = "rnd" /\ int_returns # None /\ gamma > 0
    /\ \E n \in GEnvs :
         /\ next_done[n] = 1 /\ dones[GaeSteps - 1][n] = 1
         /\ ext_advantages[GaeSteps - 1][n] #
                rewards[GaeSteps - 1][n] + gamma * next_value_ext[n]
                - ext_values[GaeSteps - 1][n]

\* C10: with gamma = 0 and gae_lambda = 0 every advantage is r_t - V(s_t)
\* (for the intrinsic stream of RND: with int_gamma = 0).
C10_ZeroGammaLambda ==
    (ext_returns # None /\ gae_lambda = 0) =>
        \A t \in GSteps, n \in GEnvs :
            /\ gamma = 0 =>
                   ext_advantages[t][n] = rewards[t][n] - ext_values[t][n]
            /\ (gscript = "rnd" /\ int_gamma = 0) =>
                   int_advantages[t][n] = curiosity_rewards[t][n] - int_values[t][n]

\* C10 witness: a finished run with gamma = lambda = 0, a bootstrap value
\* that is not zero, and done flags both set and unset.
C10_Witness ==
    /\ ext_returns # None /\ gamma = 0 /\ gae_lambda = 0
    /\ \E n \in GEnvs : next_done[n] = 0 /\ next_value_ext[n] # 0
    /\ \E n \in GEnvs : dones[GaeSteps - 1][n] = 1

\* sum of q^k for k in 0..m
RECURSIVE GeomSum(_, _)
GeomSum(q, m) == IF m < 0 THEN 0 ELSE Pow(q, m) + GeomSum(q, m - 1)

\* environment n saw no done flag, one reward and one value estimate throughout
ConstantEpisode(n) ==
    /\ next_done[n] = 0
    /\ \A t \in GSteps : dones[t][n] = 0
    /\ \A t \in GSteps : rewards[t][n] = rewards[0][n]
    /\ \A t \in GSteps : ext_values[t][n] = next_value_ext[n]

\* C11: for an environment with no done flag anywhere, constant reward r and
\* constant value V (bootstrap value included), the estimator yields
\* A_t = (r + gamma*V - V) * sum_{k=0}^{T-1-t} (gamma*lambda)^k for every t.
C11_GeometricClosedForm ==
    gt < 0 =>
        \A n \in GEnvs : ConstantEpisode(n) =>
            \A t \in GSteps :
                ext_advantages[t][n] =
                    (rewards[0][n] + gamma * next_value_ext[n] - next_value_ext[n])
                    * GeomSum(gamma * gae_lambda, GaeSteps - 1 - t)

C11_Witness ==
    /\ gt < 0
    /\ gamma * gae_lambda > 1
    /\ \E n \in GEnvs :
          /\ ConstantEpisode(n)
          /\ rewards[0][n] + gamma * next_value_ext[n] - next_value_ext[n] # 0
          /\ ext_advantages[0][n] # ext_advantages[GaeSteps - 1][n]


(***************************************************************************)
(* The training loops: statistics, blend, configuration, normalizations    *)
(***************************************************************************)
\* C3: in the RLE loop the feature statistics are updated exactly once per
\* rollout iteration, from that iteration's num_steps * num_envs features: when
\* iteration k has ended, update_stats has run once in it and the statistic
\* has folded k * num_steps * num_envs features.
C3_StatsOncePerIteration ==
    (tscript = "rle" /\ pc = "log") =>
        /\ stats_updates = 1
        /\ rms_count["feature_rms"] = iteration * args.num_steps * args.num_envs

\* C4: in every RLE iteration update_from_policy_net runs exactly once and
\* after the iteration's optimization pass: when the iteration has ended, the
\* parameters the blend read are those the iteration's optimizer steps produced.
C4_BlendAfterOptimization ==
    (tscript = "rle" /\ pc = "log") =>
        /\ blends = 1
        /\ blend_version = policy_version

\* a configuration whose batch does not split into num_minibatches equal,
\* non-empty minibatches
Inconsistent ==
    \/ args.batch_size % args.num_minibatches # 0
    \/ args.minibatch_size = 0

\* C5: an inconsistent configuration is rejected before training starts: the
\* script takes no environment step and no optimizer step under it.
C5_InconsistentConfigRejected ==
    (pc # "idle" /\ Inconsistent) => (env_steps = 0 /\ opt_steps = 0)

\* C6: every normalization the training loops perform divides by a quantity
\* with an epsilon term.
C6_EpsilonFloorEverywhere ==
    \A d \in divisions : d.eps[1] > 0

(***************************************************************************)
(* Reproducibility                                                         *)
(***************************************************************************)
\* C7: every random draw of a run derives from the configured seed: two runs
\* of one script with one seed are in the same environment state, have taken
\* the same action and use the same minibatch permutation at every point.
C7_SameSeedSameRun ==
    rpc # "idle" =>
        /\ agent_location[1] = agent_location[2]
        /\ action[1] = action[2]
        /\ b_inds[1] = b_inds[2]

(***************************************************************************)
(* RunningMeanStd: grouping, empty batch, count                            *)
(***************************************************************************)
\* the batch the last update of grouping g folded
LastBatch(g) == Plan(g)[rms_done[g]]
Finished(g) == rms_done[g] = Len(Plan(g))

\* number of samples in the first k batches of a plan
RECURSIVE Folded(_, _)
Folded(plan, k) == IF k = 0 THEN 0 ELSE Len(plan[k]) + Folded(plan, k - 1)

\* C12: folding batches is associative and order-independent: the statistics
\* that folded [A,B] then C, A then [B,C], and C, B, A one by one end with the
\* same (mean, var, count).
C12_GroupingIndependent ==
    \A g, h \in Groupings : (Finished(g) /\ Finished(h)) => rms[g] = rms[h]

\* C13: an update with an empty batch is a no-op: mean, var and count are what
\* they were before the call, and none of them is undefined.
C13_EmptyBatchNoOp ==
    \A g \in Groupings :
        (rms_done[g] > 0 /\ LastBatch(g) = <<>>) =>
            /\ rms[g] = rms_before[g]
            /\ ~IsNaN(rms[g].mean) /\ ~IsNaN(rms[g].var) /\ ~IsNaN(rms[g].count)

\* C14: a statistic starts with mean 0, var 1 and a positive count epsilon;
\* after any updates its count is epsilon plus the samples folded in, so it
\* never decreases and is never zero.
C14_CountIsEpsilonPlusSamples ==
    \A g \in Groupings :
        /\ rms_done[g] = 0 =>
              (rms[g].mean = Num(0) /\ rms[g].var = Num(1) /\ rms[g].count = RmsEpsilon)
        /\ rms[g].count = RAdd(RmsEpsilon, Num(Folded(Plan(g), rms_done[g])))
        /\ ~RLess(rms[g].count, rms_before[g].count)
        /\ RLess(Num(0), rms[g].count)

C14_Witness ==
    \E g \in Groupings :
        /\ rms_done[g] >= 2
        /\ Len(Plan(g)[1]) > 0
        /\ Len(LastBatch(g)) > 0
        /\ RLess(rms_before[g].count, rms[g].count)

(***************************************************************************)
(* RewardForwardFilter: the returned vector                                *)
(***************************************************************************)
\* C15: the vector update(rewards, not_done) returns is an independent
\* snapshot: no later update changes a vector returned earlier, and a caller
\* writing into a returned vector does not change the accumulator.
C15_ReturnedSnapshot ==
    /\ \A k \in 1..Len(fheld) :
          (fheld[k].masked /\ ~fheld[k].written) => ~fheld[k].changed
    /\ fwrite # "changed"

\* the caller has written into a returned vector, and the vector it holds
\* now was returned before an update that changed the accumulator in place
C15_Witness ==
    /\ fwrite = "kept"
    /\ \E k \in 1..Len(fheld) :
          /\ fheld[k].masked /\ fheld[k].old /\ ~fheld[k].written
          /\ fnotdone # None
          /\ fprev # None
          /\ fprev # rewems

(***************************************************************************)
(* The latent vectors                                                      *)
(***************************************************************************)
\* the step ended the episode of environment n, or its counter reached the budget
MustResample(n) == z_done[n] \/ z_before.steps[n] + 1 >= z_reset_frequency

\* C16: in each step the latent of environment n is replaced by a fresh
\* sample exactly once if the step ended its episode or its counter reached
\* z_reset_frequency, and is left alone otherwise; a resample sets the counter
\* to 0; no latent serves more than z_reset_frequency consecutive steps.
C16_LatentResample ==
    z_steps > 0 =>
        \A n \in LEnvs :
            /\ MustResample(n) =>
                  /\ z_assigned[n] = 1
                  /\ z_latent[n] >= z_samples - LatEnvs
                  /\ \A m \in LEnvs : z_latent[n] # z_before.latent[m]
                  /\ \A m \in LEnvs \ {n} : z_latent[n] # z_latent[m]
                  /\ steps_since_z_reset[n] = 0
            /\ ~MustResample(n) =>
                  /\ z_assigned[n] = 0
                  /\ z_latent[n] = z_before.latent[n]
                  /\ steps_since_z_reset[n] = z_before.steps[n] + 1
            /\ z_used[n] <= z_reset_frequency

\* one environment is resampled because its episode ended, another because it
\* reached the budget, after its latent served z_reset_frequency steps
C16_Witness ==
    /\ z_steps > 0
    /\ \E n \in LEnvs :
          /\ ~z_done[n] /\ MustResample(n) /\ z_used[n] = z_reset_frequency
    /\ \E n \in LEnvs : z_done[n] /\ z_before.steps[n] + 1 < z_reset_frequency

(***************************************************************************)
(* The optimization loop: minibatches, early stop                          *)
(***************************************************************************)
\* the minibatch loop of the current epoch has ended
EpochFinished ==
    /\ pc = "optimize" /\ epoch_inds # <<>>
    /\ args.minibatch_size > 0 /\ start >= args.batch_size

\* C17: the minibatches of an epoch are slices of one permutation of
\* 0..batch_size-1: every index is in exactly one of them, each has exactly
\* minibatch_size = batch_size // num_minibatches indices, and the epoch takes
\* exactly num_minibatches optimizer steps.
C17_MinibatchPartition ==
    EpochFinished =>
        /\ \A idx \in 0..(args.batch_size - 1) :
              Cardinality({km \in (1..Len(minibatches)) \X (1..args.batch_size) :
                              /\ km[2] <= Len(minibatches[km[1]])
                              /\ minibatches[km[1]][km[2]] = idx}) = 1
        /\ \A k \in 1..Len(minibatches) : Len(minibatches[k]) = args.minibatch_size
        /\ Len(minibatches) = args.num_minibatches

\* C18 as stated: without target_kl an iteration runs exactly update_epochs
\* epochs; with it, no optimizer step of the iteration is taken once the
\* estimate approx_kl of a minibatch has exceeded target_kl.
C18_StopsAsSoonAsExceeded ==
    /\ (pc = "log" /\ args.target_kl = "None") => epochs_run = args.update_epochs
    /\ pc # "idle" => late_steps = 0

\* C18, amended: without target_kl an iteration runs exactly update_epochs
\* epochs; with it, the estimate approx_kl (not old_approx_kl) of the last
\* minibatch of each epoch is compared with target_kl when the epoch has
\* ended: the epoch loop stops after the first epoch that ends with
\* approx_kl > target_kl, no optimizer step of the iteration follows such an
\* epoch, and otherwise all update_epochs epochs run.
C18_StopsAfterEpochExceeded ==
    pc # "idle" =>
        /\ (pc = "log" /\ args.target_kl = "None") => epochs_run = args.update_epochs
        /\ (pc = "log" /\ args.target_kl # "None") =>
              (kl.approx \/ epochs_run = args.update_epochs)
        /\ steps_after_high = 0

\* an iteration stopped before its last epoch on approx_kl, with old_approx_kl
\* below the target, after steps taken past an earlier minibatch's excess
C18_Witness ==
    /\ pc = "log"
    /\ args.target_kl # "None"
    /\ kl.approx /\ ~kl.old
    /\ epochs_run < args.update_epochs
    /\ late_steps > 0

(***************************************************************************)
(* The clipped policy loss                                                 *)
(***************************************************************************)
LowEdge == RSub(Num(1), ClipCoef)
HighEdge == RAdd(Num(1), ClipCoef)

\* the loss of one sample, case by case
RefSurrogate(adv, rat) ==
    IF RLess(HighEdge, rat) /\ RLess(Num(0), adv) THEN RMul(RNeg(adv), HighEdge)
    ELSE IF RLess(rat, LowEdge) /\ RLess(adv, Num(0)) THEN RMul(RNeg(adv), LowEdge)
    ELSE RMul(RNeg(adv), rat)

\* C19: the policy loss is the mean over the minibatch of a per-sample loss
\* that is -A*ratio inside the band [1-eps, 1+eps], the constant -A*(1+eps)
\* above the band when A > 0, the constant -A*(1-eps) below the band when
\* A < 0, and -A*ratio in the two other cases.
C19_ClippedPolicyLoss ==
    pg_loss # None =>
        pg_loss = Mean([i \in 1..Len(ratio) |-> RefSurrogate(mb_advantages[i], ratio[i])])

\* the single-sample minibatch with ratio = 1 + 2*eps and positive advantage
C19_Witness ==
    /\ pg_loss # None
    /\ Len(ratio) = 1
    /\ ratio[1] = RAdd(Num(1), RMul(Num(2), ClipCoef))
    /\ RLess(Num(0), mb_advantages[1])
    /\ pg_loss = RMul(RNeg(mb_advantages[1]), HighEdge)
    /\ pg_loss # RMul(RNeg(mb_advantages[1]), ratio[1])

(***************************************************************************)
(* Reward normalization in the RND loop                                    *)
(***************************************************************************)
\* the filter on the rows in time order, then one update of the statistic
\* with all the filtered values, then the division by the variance of the
\* statistic just updated
OrderOfOperations ==
    /\ norm_log = [k \in 1..NormSteps |-> <<"filter", k - 1>>]
                      \o << <<"update", nupdate>>, <<"divide", nupdate>> >>
    /\ stat_updates = nupdate
    /\ Len(stat_batch) = NormSteps * NumSlots
    /\ stat_batch = NormFlatten(reward_per_env)
    /\ divisor = <<nupdate>>

\* C20: in every RND iteration and for each stream, when advantage estimation
\* starts the filter has run over the T rows in time order, the statistic has
\* then been updated once with the T*N filtered values, and the stream's
\* rewards buffer (not the filtered rows) has then been divided by sqrt(var)
\* of the statistic just updated.
C20_NormalizationOrder ==
    npc = "advantages" => OrderOfOperations

\* the second iteration's normalization is done, with a reward in each row
C20_Witness ==
    /\ npc = "advantages"
    /\ nupdate = 2
    /\ divisor = <<2>>
    /\ \A t \in 1..NormSteps : \E n \in Slots : norm_raw[t][n] # 0
    /\ stat_batch = NormFlatten(reward_per_env)

\* the rewards the rollout stored are still in the stream's buffer
RawRewardsKept == norm_rewards = norm_raw

\* C25: the filter never modifies a reward row passed to it, in that call or
\* in a later one, so that from the first filter call to advantage estimation
\* the buffer holds the rewards the rollout recorded, row 0 included, and
\* after the normalization each entry is the recorded reward divided by
\* sqrt(var) of the stream's statistic.
C25_FilterLeavesRewards ==
    /\ npc \in {"filter", "update", "divide", "advantages"} => RawRewardsKept
    /\ npc = "advantages" => divisor = <<stat_updates>>

(***************************************************************************)
(* The frozen target network                                               *)
(***************************************************************************)
\* C21: the target network is not handed to the optimizer, is marked
\* non-trainable and never gets a gradient, and after any number of rollouts
\* and optimizer steps its parameters equal their initial values.
C21_TargetFrozen ==
    parpc # "idle" =>
        /\ "target" \notin combined_parameters
        /\ ~requires_grad("target")
        /\ grad["target"] = None
        /\ params["target"] = params0["target"]

\* optimizer steps have changed the agent and the predictor, not the target
C21_Witness ==
    /\ optimizer_steps >= 2
    /\ params["agent"] # params0["agent"]
    /\ params["predictor"] # params0["predictor"]
    /\ params["target"] = params0["target"]

(***************************************************************************)
(* FourRoomGridWorld                                                       *)
(***************************************************************************)
\* C22: a step with an action outside 0..3 raises, is not mapped to a move,
\* and leaves the agent, target and start locations as they were.
C22_InvalidActionFails ==
    (env_call = "step" /\ env_action \notin 0..3) =>
        /\ env_raised # "none"
        /\ Locations = env_before

\* a step with an action outside 0..3, after the agent has left its start
C22_Witness ==
    /\ env_call = "step"
    /\ env_action \in {-1, 4}
    /\ env_raised = "KeyError"
    /\ env_agent_location # env_start_location

InGrid(pos) == pos[1] \in 0..(self_size - 1) /\ pos[2] \in 0..(self_size - 1)

\* on the wall row or the wall column, and none of the four holes
WallCell(pos) ==
    /\ (pos[1] = x_wall_position \/ pos[2] = y_wall_position)
    /\ pos # hole_1_position /\ pos # hole_2_position
    /\ pos # hole_3_position /\ pos # hole_4_position

\* the last call was a step with one of the four actions
ValidStep == env_call = "step" /\ env_action \in 0..3

\* the cell the last step asked for
Requested ==
    <<env_before[1][1] + ActionToDirection(env_action)[1],
      env_before[1][2] + ActionToDirection(env_action)[2]>>

\* C29: after reset and after any steps the agent is inside the grid and not
\* on a wall cell, and a step that asks for a wall cell or for a cell off the
\* grid leaves the agent where it was.
C29_AgentOffTheWall ==
    env_call # "none" =>
        /\ InGrid(env_agent_location)
        /\ ~WallCell(env_agent_location)
        /\ (ValidStep /\ (~InGrid(Requested) \/ WallCell(Requested)))
              => env_agent_location = env_before[1]

\* a step into a wall cell, away from the start, that left the agent in place
C29_Witness ==
    /\ ValidStep
    /\ InGrid(Requested) /\ WallCell(Requested)
    /\ env_agent_location = env_before[1]
    /\ env_agent_location # env_start_location

\* a step off the grid that left the agent in place
C29_WitnessOffGrid ==
    /\ ValidStep
    /\ ~InGrid(Requested)
    /\ env_agent_location = env_before[1]

\* C30: a step returns 1 exactly when it ends the episode, -1 only when the
\* move was blocked by a wall or the boundary and the agent stayed in place,
\* and 0 whenever the agent moved to a cell that is not the target.
C30_RewardMeaning ==
    ValidStep =>
        /\ (env_reward = 1) <=> env_terminated
        /\ env_terminated <=> (env_agent_location = env_target_location)
        /\ (env_reward = -1) =>
              /\ env_agent_location = env_before[1]
              /\ (~InGrid(Requested) \/ WallCell(Requested))
        /\ (env_agent_location # env_before[1]
              /\ env_agent_location # env_target_location) => env_reward = 0

(***************************************************************************)
(* The step budget and the warm-up                                         *)
(***************************************************************************)
\* the environment steps of the warm-up
WarmupSteps ==
    IF tscript = "rnd" THEN args.num_steps * args.num_iterations_obs_norm_init ELSE 0

Budget == args.total_timesteps \div (args.num_envs * args.num_steps)

\* C23: the training loop runs total_timesteps // (num_envs * num_steps)
\* iterations, each iteration takes num_steps vectorized environment steps,
\* global_step is num_envs * num_steps times the number of iterations done
\* (plus num_envs per step of the rollout under way), and global_step never
\* exceeds total_timesteps.
C23_StepBudget ==
    pc # "idle" =>
        /\ global_step <= args.total_timesteps
        /\ pc \in {"start", "warmup"} => global_step = 0
        /\ pc \in {"rollout", "optimize", "log", "error"} =>
              /\ iteration \in 1..Budget
              /\ step \in 0..args.num_steps
              /\ pc # "rollout" => step = args.num_steps
              /\ global_step = ((iteration - 1) * args.num_steps + step) * args.num_envs
              /\ env_steps = WarmupSteps + (iteration - 1) * args.num_steps + step
        /\ pc = "done" =>
              /\ iteration = Budget + 1
              /\ global_step = Budget * args.num_envs * args.num_steps
              /\ env_steps = WarmupSteps + Budget * args.num_steps

\* a run has done its iterations and ended with part of its budget unused
C23_Witness ==
    /\ pc = "done"
    /\ Budget >= 1
    /\ iteration = Budget + 1
    /\ global_step = Budget * args.num_envs * args.num_steps
    /\ global_step < args.total_timesteps

\* C24: the warm-up folds its steps into obs_rms in
\* num_iterations_obs_norm_init updates of num_steps steps each, and when it
\* ends every observation it collected has been folded in.
C24_WarmupFoldsEverything ==
    (tscript = "rnd" /\ pc = "warmup") =>
        /\ rms_count["obs_rms"] = stats_updates * args.num_steps * args.num_envs
        /\ step = WarmupSteps =>
              /\ stats_updates = args.num_iterations_obs_norm_init
              /\ rms_count["obs_rms"] = WarmupSteps * args.num_envs
              /\ next_ob = 0

(***************************************************************************)
(* The latents of the optimization batch                                   *)
(***************************************************************************)
\* the index of transition (t, n) in the flattened buffers (b_obs, b_actions,
\* b_logprobs: reshape of the (T, N) buffers), t counted from 0
BatchIndex(t, n) == t * LatEnvs + n

\* C26: the latent fed to the policy with the stored transition (t, n) in the
\* optimization is the latent environment n had when the action of step t was
\* sampled, also when that latent was replaced later in the rollout.
C26_LatentOfTransition ==
    b_latents # None =>
        \A t \in 0..(LatSteps - 1), n \in LEnvs :
            b_latents[BatchIndex(t, n)] = z_at[t + 1][n]

(***************************************************************************)
(* The blend of the feature network with the actor                         *)
(***************************************************************************)
\* the last thing that happened is a call of update_from_policy_net
JustBlended == netpc = "optimize" /\ blend_calls > 0

\* C27: update_from_policy_net leaves the feature network's first layer and
\* its feature_layer entirely unchanged, sets the parameters of the other
\* layer to tau * policy + (1 - tau) * feature, and changes no policy
\* parameter.
C27_BlendOnlyMatchingLayers ==
    JustBlended =>
        /\ policy_params = nets_before.policy
        /\ \A k \in {"weight", "bias"} :
              /\ feat_params[<<"shared_layers.0", k>>]
                    = nets_before.feat[<<"shared_layers.0", k>>]
              /\ feat_params[<<"feature_layer", k>>]
                    = nets_before.feat[<<"feature_layer", k>>]
              /\ feat_params[<<"shared_layers.2", k>>]
                    = Blended(nets_before.feat[<<"shared_layers.2", k>>],
                              nets_before.policy[<<"actor.2", k>>])

(***************************************************************************)
(* RunningMeanStd: the variance                                            *)
(***************************************************************************)
\* every batch the statistic of grouping g has folded so far had a sample
NonEmptySoFar(g) == \A k \in 1..rms_done[g] : Len(Plan(g)[k]) > 0

\* C28: starting from var 1 and a positive count, after any updates with
\* non-empty batches (constant batches included) var is a number and is
\* strictly positive.
C28_VarPositive ==
    \A g \in Groupings :
        NonEmptySoFar(g) => (~IsNaN(rms[g].var) /\ RLess(Num(0), rms[g].var))

====
